---- MODULE Spec2Model ----
(***************************************************************************)
(* Model of the route-planning engine of routingVisual                     *)
(* (routingUtils: findNearestNode, haversineDistance, buildAdjacencyList,  *)
(* heuristicDistance, calculateRoute).                                     *)
(*                                                                         *)
(* Number representation.  The source computes with IEEE doubles; here     *)
(* every quantity is an integer in a fixed unit:                           *)
(*   - coordinates are in millidegrees (0.001 degree), and every node and  *)
(*     query point lies on the equator (lat = 0), where the haversine      *)
(*     distance is exactly R * |dLon| (in radians);                        *)
(*   - distances are in millimetres;                                       *)
(*   - travel_time, length, gScore, fScore and the heuristic are in        *)
(*     thousandths (travel_time 5 is written 5000).                        *)
(* JavaScript's Infinity is the definition Infinity; undefined map entries *)
(* are keys outside the DOMAIN of the function modelling the Map.          *)
(*                                                                         *)
(* Around the engine the module models the effect of the RouteVisualization*)
(* component that calls calculateRoute (SpecHost), and the two Visual      *)
(* classes that parse the host's coordinates and load the graph            *)
(* (SpecVisual).  The Visuals' coordinates are decimal numbers with an     *)
(* explicit NaN and infinity; texts are sequences of characters.           *)
(***************************************************************************)
EXTENDS Integers, Sequences, FiniteSets, TLC

\* ------------------------------------------------------------------------
\* Bounds of the explored inputs
\* ------------------------------------------------------------------------
MaxNodes == 3
MaxEdges == 2
MaxLon == 1

\* Effect runs of the component that are followed.
MaxCalls == 2

\* An id edges may point to that no graph of the family contains.
MissingId == MaxNodes + 4

\* (travel_time, length) pairs offered to the edges, in thousandths.
WeightPairs == {<<5000, 1000>>, <<0, 20000>>, <<0, 0>>}

\* ------------------------------------------------------------------------
\* Program constants
\* ------------------------------------------------------------------------
Infinity == 2000000000
EarthRadiusKm == 6371
RadPerDegreeE6 == 17453
AverageSpeedKmh == 50
NotFound == -1

MsgNearest == "Could not find nearest nodes for the given coordinates"
MsgNoPath == "No path found between the given coordinates"

\* `number | null` values of the predecessor map: <<>> is null, <<n>> is n.
Null == <<>>
Some(n) == <<n>>

VARIABLES
    graph,          \* GraphData: nodes (id -> GraphNode) with the order in
                    \* which the keys were added, edges, counts
    pc,             \* "idle" | "loop" | "returned" | "thrown" | "settled"
    startCoord,     \* arguments of the running / last call
    endCoord,
    startNode,      \* snapped node ids
    endNode,
    built,          \* TRUE once adjacency list and search state exist
    adjacencyList,  \* Map<number, Array<{node, weight}>>
    gScore,         \* Map<number, number>
    fScore,         \* Map<number, number>
    previous,       \* Map<number, number | null>
    openSet,        \* Set<number>, in insertion order
    closedSet,      \* Set<number>
    currentNode,    \* node selected by the latest loop iteration
    path,           \* node ids collected by the predecessor walk
    routeCoords,    \* returned Coordinate[]
    error,          \* message of the thrown Error, "" if none
    viewRouteCoords,  \* RouteVisualization state: routeCoords
    viewError,        \* RouteVisualization state: error (Null or Some(message))
    viewLoading,      \* RouteVisualization state: loading
    propagated,       \* TRUE once an exception has left the effect
    outcomes,         \* history: arguments and outcome of every settled run
    visualClass,      \* which Visual: "settings" (formatting pane) | "dataView" (table)
    visualStartCoord, \* Visual.startCoord: Null or Some(coordinate in degrees)
    visualEndCoord,   \* Visual.endCoord
    graphData,        \* Visual.graphData: Null or Some(graph)
    width,            \* Visual.width
    height,           \* Visual.height
    loadState,        \* loadGraphData: "fetching" | "reading" | "fetchingAlt" |
                      \* "readingAlt" | "done"
    rendered,         \* what the React root was last given
    updated           \* history: TRUE once update() has run

hostVars == <<viewRouteCoords, viewError, viewLoading, propagated, outcomes>>

visualVars == <<visualClass, visualStartCoord, visualEndCoord, graphData,
                width, height, loadState, rendered, updated>>

routeVars == <<graph, pc, startCoord, endCoord, startNode, endNode, built,
               adjacencyList, gScore, fScore, previous, openSet, closedSet,
               currentNode, path, routeCoords, error>>

vars == <<routeVars, hostVars, visualVars>>

\* ------------------------------------------------------------------------
\* Data model
\* ------------------------------------------------------------------------
Coordinate(lat, lon) == [lat |-> lat, lon |-> lon]

\* Points a caller asks about: the points of the grid and the positions
\* of the graph's nodes.
Coordinates ==
    {Coordinate(0, x) : x \in 0..MaxLon}
        \cup {Coordinate(graph.nodes[id].lat, graph.nodes[id].lon) :
                id \in DOMAIN graph.nodes}

GraphNode(id, lat, lon) == [id |-> id, lat |-> lat, lon |-> lon]

GraphEdge(from, to, length, travel_time) ==
    [from |-> from, to |-> to, length |-> length, travel_time |-> travel_time]

RECURSIVE SeqsUpTo(_, _)
SeqsUpTo(S, n) ==
    IF n = 0 THEN {<<>>}
    ELSE LET shorter == SeqsUpTo(S, n - 1)
         IN  shorter \cup {Append(s, x) : s \in {t \in shorter : Len(t) = n - 1}, x \in S}

EdgesOver(ids) ==
    {GraphEdge(f, t, w[2], w[1]) : f \in ids, t \in ids \cup {MissingId}, w \in WeightPairs}

\* graph.nodes is an object: node_order is the order in which its keys
\* were added (the order of the keys in the JSON file).
GraphData(order, nodes, edges) ==
    [nodes |-> nodes, node_order |-> order, edges |-> edges,
     node_count |-> Cardinality(DOMAIN nodes), edge_count |-> Len(edges)]

\* Node-id sets of the graphs: consecutive ids, beginning at the sentinel
\* value, at the falsy value or at 1, and a set of two negative ids.
NodeIdSets ==
    {{}} \cup {first..(first + n - 1) : first \in {-1, 0, 1}, n \in 1..MaxNodes}
         \cup {{-2, -1}}

\* Graphs with two routes from node 1 to node 4 that share their last edge:
\* 1 -> 2 -> 3 -> 4 and 1 -> 3 -> 4.
DiamondEdges(w) ==
    <<GraphEdge(1, 2, w[1][2], w[1][1]), GraphEdge(1, 3, w[2][2], w[2][1]),
      GraphEdge(2, 3, w[3][2], w[3][1]), GraphEdge(3, 4, w[4][2], w[4][1])>>

\* The chain 1 -> 2 -> 3 along the equator, a thousandth of a degree
\* apart, each edge with travel_time 5 and length 1.
ScenarioGraph ==
    [nodes |-> [id \in 1..3 |-> [id |-> id, lat |-> 0, lon |-> id - 1]],
     node_order |-> <<1, 2, 3>>,
     edges |-> <<GraphEdge(1, 2, 1000, 5000), GraphEdge(2, 3, 1000, 5000)>>,
     node_count |-> 3,
     edge_count |-> 2]

\* ------------------------------------------------------------------------
\* JavaScript helpers
\* ------------------------------------------------------------------------
Abs(x) == IF x < 0 THEN -x ELSE x

\* Infinity absorbs addition.
Plus(a, b) == IF a = Infinity \/ b = Infinity THEN Infinity ELSE a + b

\* `map.get(k) || Infinity`: undefined and 0 are falsy.
GetOrInfinity(map, k) ==
    IF k \in DOMAIN map /\ map[k] # 0 THEN map[k] ELSE Infinity

\* `map.get(k) || 0`
GetOrZero(map, k) == IF k \in DOMAIN map THEN map[k] ELSE 0

\* `map.get(k) || null` on the predecessor map: undefined, null and 0 are falsy.
GetOrNull(map, k) ==
    IF k \in DOMAIN map /\ map[k] # Null /\ map[k] # Some(0) THEN map[k] ELSE Null

\* map.set(k, v)
MapSet(map, k, v) ==
    [x \in DOMAIN map \cup {k} |-> IF x = k THEN v ELSE map[x]]

\* set.add(x) on an insertion-ordered Set
SetAdd(set, x) ==
    IF \E i \in 1..Len(set) : set[i] = x THEN set ELSE Append(set, x)

\* Variant: the element stays in the set.
SetDeleteKeeps(set, x) == set

\* set.delete(x)
SetDelete(set, x) == SelectSeq(set, LAMBDA y : y # x)

SetHas(set, x) == \E i \in 1..Len(set) : set[i] = x

RECURSIVE Ascending(_)
Ascending(S) ==
    IF S = {} THEN <<>>
    ELSE LET m == CHOOSE x \in S : \A y \in S : x <= y
         IN  <<m>> \o Ascending(S \ {m})

\* Enumeration order of `for (const nodeId in graph.nodes)`: the keys that
\* are array indices ascending, then the other keys in the order in which
\* they were added.  Array indices are the integers from 0 to 2^32 - 2;
\* every non-negative id of the model lies below 2^31.
NodeKeyOrder(g) ==
    Ascending({k \in DOMAIN g.nodes : k >= 0}) \o
    SelectSeq(g.node_order, LAMBDA k : k < 0)

\* The orders in which the keys of a graph's nodes may have been added:
\* the array indices ascending (their place does not matter to for..in),
\* then the negative ids in any order.
RECURSIVE Perms(_)
Perms(S) ==
    IF S = {} THEN {<<>>}
    ELSE UNION {{<<x>> \o p : p \in Perms(S \ {x})} : x \in S}

KeyOrders(ids) ==
    {Ascending({k \in ids : k >= 0}) \o p : p \in Perms({k \in ids : k < 0})}

\* ------------------------------------------------------------------------
\* haversineDistance, toRadians
\* ------------------------------------------------------------------------
\* Millimetres between two points of the equator given in millidegrees:
\* R * dLon(rad), the value of the haversine formula for lat1 = lat2 = 0.
haversineDistance(lat1, lon1, lat2, lon2) ==
    Abs(lon2 - lon1) * ((EarthRadiusKm * RadPerDegreeE6) \div 1000)

\* ------------------------------------------------------------------------
\* findNearestNode
\* ------------------------------------------------------------------------
RECURSIVE NearestScan(_, _, _, _, _, _)
\* Variant: a candidate at the same distance replaces the incumbent.
NearestScanTakesTies(g, order, i, point, minDistance, nearestNodeId) ==
    IF i > Len(order) THEN nearestNodeId
    ELSE LET node == g.nodes[order[i]]
             distance == haversineDistance(point.lat, point.lon, node.lat, node.lon)
         IN  IF distance <= minDistance
             THEN NearestScan(g, order, i + 1, point, distance, node.id)
             ELSE NearestScan(g, order, i + 1, point, minDistance, nearestNodeId)

NearestScan(g, order, i, point, minDistance, nearestNodeId) ==
    IF i > Len(order) THEN nearestNodeId
    ELSE LET node == g.nodes[order[i]]
             distance == haversineDistance(point.lat, point.lon, node.lat, node.lon)
         IN  IF distance < minDistance
             THEN NearestScan(g, order, i + 1, point, distance, node.id)
             ELSE NearestScan(g, order, i + 1, point, minDistance, nearestNodeId)

\* Variant: the scan stops one node early.
findNearestNodeSkipLast(g, point) ==
    NearestScan(g, SubSeq(NodeKeyOrder(g), 1, Len(NodeKeyOrder(g)) - 1), 1,
                point, Infinity, NotFound)

findNearestNode(g, point) ==
    NearestScan(g, NodeKeyOrder(g), 1, point, Infinity, NotFound)

\* ------------------------------------------------------------------------
\* buildAdjacencyList
\* ------------------------------------------------------------------------
\* Variant: travel_time used even when it is 0.
EdgeWeightTravelTimeOnly(edge) == edge.travel_time

EdgeWeight(edge) ==
    IF edge.travel_time > 0 THEN edge.travel_time ELSE edge.length

RECURSIVE AdjacencyFrom(_, _, _)
\* Variant: each entry is put at the head of its list instead of the tail.
AdjacencyFromPrepend(edges, i, adj) ==
    IF i > Len(edges) THEN adj
    ELSE LET edge == edges[i]
             list == IF edge.from \in DOMAIN adj THEN adj[edge.from] ELSE <<>>
             entry == [node |-> edge.to, weight |-> EdgeWeight(edge)]
         IN  AdjacencyFrom(edges, i + 1, MapSet(adj, edge.from, <<entry>> \o list))

AdjacencyFrom(edges, i, adj) ==
    IF i > Len(edges) THEN adj
    ELSE LET edge == edges[i]
             list == IF edge.from \in DOMAIN adj THEN adj[edge.from] ELSE <<>>
             entry == [node |-> edge.to, weight |-> EdgeWeight(edge)]
         IN  AdjacencyFrom(edges, i + 1, MapSet(adj, edge.from, Append(list, entry)))

\* Variant: every edge entered in the opposite direction.
buildAdjacencyListReversed(g) ==
    AdjacencyFrom([i \in 1..Len(g.edges) |->
                      GraphEdge(g.edges[i].to, g.edges[i].from,
                                g.edges[i].length, g.edges[i].travel_time)],
                  1, <<>>)

buildAdjacencyList(g) == AdjacencyFrom(g.edges, 1, <<>>)

\* ------------------------------------------------------------------------
\* heuristicDistance
\* ------------------------------------------------------------------------
\* Variant: a node that is not in the graph gets the estimate 0.
heuristicDistanceMissingZero(g, nodeId, endNodeId) ==
    IF nodeId \notin DOMAIN g.nodes \/ endNodeId \notin DOMAIN g.nodes
    THEN 0
    ELSE LET node == g.nodes[nodeId]
             endN == g.nodes[endNodeId]
             distanceMm == haversineDistance(node.lat, node.lon, endN.lat, endN.lon)
         IN  (distanceMm * 3600) \div (AverageSpeedKmh * 1000)

heuristicDistance(g, nodeId, endNodeId) ==
    IF nodeId \notin DOMAIN g.nodes \/ endNodeId \notin DOMAIN g.nodes
    THEN Infinity
    ELSE LET node == g.nodes[nodeId]
             endN == g.nodes[endNodeId]
             distanceMm == haversineDistance(node.lat, node.lon, endN.lat, endN.lon)
         \* (distanceKm / averageSpeedKmh) * 3600, in thousandths of a second
         IN  (distanceMm * 3600) \div (AverageSpeedKmh * 1000)

\* ------------------------------------------------------------------------
\* calculateRoute: selection, relaxation, reconstruction
\* ------------------------------------------------------------------------
\* Lines 345-354: linear scan of the open set for the lowest fScore.
RECURSIVE ScanOpen(_, _, _, _, _)
ScanOpen(open, i, fs, current, minFScore) ==
    IF i > Len(open) THEN [currentNode |-> current, minFScore |-> minFScore]
    ELSE LET f == GetOrInfinity(fs, open[i])
         IN  IF f < minFScore
             THEN ScanOpen(open, i + 1, fs, open[i], f)
             ELSE ScanOpen(open, i + 1, fs, current, minFScore)

SelectCurrent(open, fs) == ScanOpen(open, 1, fs, NotFound, Infinity)

\* Line 356: the loop is left without a result.
NoCandidate(sel) == sel.currentNode = NotFound \/ sel.minFScore = Infinity

\* Variant: neighbours that are closed already are relaxed as well.
RelaxNeighborReopens(g, current, goal, neighbor, st) ==
    LET tentativeGScore == Plus(GetOrZero(st.g, current), neighbor.weight)
        known == SetHas(st.open, neighbor.node)
    IN  IF known /\ tentativeGScore >= GetOrInfinity(st.g, neighbor.node)
        THEN st
        ELSE [open |-> SetAdd(st.open, neighbor.node),
              closed |-> st.closed,
              g |-> MapSet(st.g, neighbor.node, tentativeGScore),
              f |-> MapSet(st.f, neighbor.node,
                           Plus(tentativeGScore,
                                heuristicDistance(g, neighbor.node, goal))),
              prev |-> MapSet(st.prev, neighbor.node, Some(current))]

\* Variant: the predecessor is recorded only for a node that is new to the
\* open set, not when a better score is found for a known one.
RelaxNeighborKeepsFirstPrev(g, current, goal, neighbor, st) ==
    IF neighbor.node \in st.closed THEN st
    ELSE LET tentativeGScore == Plus(GetOrZero(st.g, current), neighbor.weight)
             known == SetHas(st.open, neighbor.node)
         IN  IF known /\ tentativeGScore >= GetOrInfinity(st.g, neighbor.node)
             THEN st
             ELSE [open |-> SetAdd(st.open, neighbor.node),
                   closed |-> st.closed,
                   g |-> MapSet(st.g, neighbor.node, tentativeGScore),
                   f |-> MapSet(st.f, neighbor.node,
                                Plus(tentativeGScore,
                                     heuristicDistance(g, neighbor.node, goal))),
                   prev |-> IF known THEN st.prev
                            ELSE MapSet(st.prev, neighbor.node, Some(current))]

\* Lines 388-409: one neighbour of the current node.
RelaxNeighbor(g, current, goal, neighbor, st) ==
    IF neighbor.node \in st.closed THEN st
    ELSE LET tentativeGScore == Plus(GetOrZero(st.g, current), neighbor.weight)
             known == SetHas(st.open, neighbor.node)
         IN  IF known /\ tentativeGScore >= GetOrInfinity(st.g, neighbor.node)
             THEN st
             ELSE [open |-> SetAdd(st.open, neighbor.node),
                   closed |-> st.closed,
                   g |-> MapSet(st.g, neighbor.node, tentativeGScore),
                   f |-> MapSet(st.f, neighbor.node,
                                Plus(tentativeGScore,
                                     heuristicDistance(g, neighbor.node, goal))),
                   prev |-> MapSet(st.prev, neighbor.node, Some(current))]

RECURSIVE ExploreNeighbors(_, _, _, _, _, _)
ExploreNeighbors(g, current, goal, neighbors, i, st) ==
    IF i > Len(neighbors) THEN st
    ELSE ExploreNeighbors(g, current, goal, neighbors, i + 1,
                          RelaxNeighbor(g, current, goal, neighbors[i], st))

\* Lines 362-368: predecessor walk, each id put in front of the path.
RECURSIVE WalkBack(_, _, _)
\* Variant: each id put behind the path (push instead of unshift).
WalkBackPush(prev, pathNode, acc) ==
    IF pathNode = Null THEN acc
    ELSE WalkBack(prev, GetOrNull(prev, pathNode[1]), acc \o <<pathNode[1]>>)

WalkBack(prev, pathNode, acc) ==
    IF pathNode = Null THEN acc
    ELSE WalkBack(prev, GetOrNull(prev, pathNode[1]), <<pathNode[1]>> \o acc)

ReconstructPath(prev, goal) == WalkBack(prev, Some(goal), <<>>)

\* Lines 371-377: ids to coordinates, ids without a node skipped.
RECURSIVE ToCoords(_, _, _)
ToCoords(g, ids, i) ==
    IF i > Len(ids) THEN <<>>
    ELSE LET rest == ToCoords(g, ids, i + 1)
         IN  IF ids[i] \in DOMAIN g.nodes
             THEN <<Coordinate(g.nodes[ids[i]].lat, g.nodes[ids[i]].lon)>> \o rest
             ELSE rest

\* Line 306
SnapFailed(s, e) == s = NotFound \/ e = NotFound

\* ------------------------------------------------------------------------
\* State machine
\* ------------------------------------------------------------------------
\* A Visual after its constructor: fields at their initialisers, the
\* graph being fetched, nothing rendered yet.
NothingRendered ==
    [view |-> "nothing", startCoord |-> Null, endCoord |-> Null,
     graphData |-> Null, width |-> 0, height |-> 0]

InitVisualState(classes) ==
    /\ visualClass \in classes
    /\ visualStartCoord = Null
    /\ visualEndCoord = Null
    /\ graphData = Null
    /\ width = 0
    /\ height = 0
    /\ loadState = "fetching"
    /\ rendered = NothingRendered
    /\ updated = FALSE

\* A call has not begun: no locals of calculateRoute exist, and the
\* component holds its useState defaults (lines 20-22).
InitCallState ==
    /\ pc = "idle"
    /\ startCoord = Coordinate(0, 0)
    /\ endCoord = Coordinate(0, 0)
    /\ startNode = NotFound
    /\ endNode = NotFound
    /\ built = FALSE
    /\ adjacencyList = <<>>
    /\ gScore = <<>>
    /\ fScore = <<>>
    /\ previous = <<>>
    /\ openSet = <<>>
    /\ closedSet = {}
    /\ currentNode = NotFound
    /\ path = <<>>
    /\ routeCoords = <<>>
    /\ error = ""
    /\ viewRouteCoords = <<>>
    /\ viewError = Null
    /\ viewLoading = FALSE
    /\ propagated = FALSE
    /\ outcomes = <<>>

Init ==
    /\ \/ \E ids \in NodeIdSets :
            \E order \in KeyOrders(ids), lons \in [ids -> 0..MaxLon] :
              \E es \in SeqsUpTo(EdgesOver(ids), MaxEdges) :
                graph = GraphData(order, [id \in ids |-> GraphNode(id, 0, lons[id])], es)
       \/ \E lons \in [1..4 -> 0..MaxLon] :
            \E w \in [1..4 -> WeightPairs] :
              graph = GraphData(<<1, 2, 3, 4>>,
                                [id \in 1..4 |-> GraphNode(id, 0, lons[id])],
                                DiamondEdges(w))
       \/ graph = ScenarioGraph
    /\ InitCallState
    /\ InitVisualState({"settings"})

SearchUnchanged ==
    UNCHANGED <<built, adjacencyList, gScore, fScore, previous, openSet,
                closedSet, currentNode, path>>

\* Variant: the sentinel is reported with the no-path message.
CalcNearestFailAsNoPath ==
    /\ pc = "idle"
    /\ \E s \in Coordinates, e \in Coordinates :
        LET sn == findNearestNode(graph, s)
            en == findNearestNode(graph, e)
        IN  /\ SnapFailed(sn, en)
            /\ startCoord' = s
            /\ endCoord' = e
            /\ startNode' = sn
            /\ endNode' = en
    /\ pc' = "thrown"
    /\ error' = MsgNoPath
    /\ SearchUnchanged
    /\ UNCHANGED <<graph, routeCoords, hostVars, visualVars>>

\* calculateRoute, lines 303-308: a snap returned the sentinel.
CalcNearestFail ==
    /\ pc = "idle"
    /\ \E s \in Coordinates, e \in Coordinates :
        LET sn == findNearestNode(graph, s)
            en == findNearestNode(graph, e)
        IN  /\ SnapFailed(sn, en)
            /\ startCoord' = s
            /\ endCoord' = e
            /\ startNode' = sn
            /\ endNode' = en
    /\ pc' = "thrown"
    /\ error' = MsgNearest
    /\ SearchUnchanged
    /\ UNCHANGED <<graph, routeCoords, hostVars, visualVars>>

\* calculateRoute, lines 310-314: both points snap to one node.
CalcSameNode ==
    /\ pc = "idle"
    /\ \E s \in Coordinates, e \in Coordinates :
        LET sn == findNearestNode(graph, s)
            en == findNearestNode(graph, e)
        IN  /\ ~SnapFailed(sn, en)
            /\ sn = en
            /\ startCoord' = s
            /\ endCoord' = e
            /\ startNode' = sn
            /\ endNode' = en
            /\ routeCoords' = <<Coordinate(graph.nodes[sn].lat, graph.nodes[sn].lon)>>
    /\ pc' = "returned"
    /\ SearchUnchanged
    /\ UNCHANGED <<graph, error, hostVars, visualVars>>

\* Variant: the closed set is not created anew but kept from the call before.
CalcBeginKeepsClosed ==
    /\ pc = "idle"
    /\ \E s \in Coordinates, e \in Coordinates :
        LET sn == findNearestNode(graph, s)
            en == findNearestNode(graph, e)
            ids == DOMAIN graph.nodes
        IN  /\ ~SnapFailed(sn, en)
            /\ sn # en
            /\ startCoord' = s
            /\ endCoord' = e
            /\ startNode' = sn
            /\ endNode' = en
            /\ gScore' = MapSet([id \in ids |-> Infinity], sn, 0)
            /\ fScore' = MapSet([id \in ids |-> Infinity], sn,
                                heuristicDistance(graph, sn, en))
            /\ previous' = [id \in ids |-> Null]
            /\ openSet' = <<sn>>
    /\ adjacencyList' = buildAdjacencyList(graph)
    /\ built' = TRUE
    /\ pc' = "loop"
    /\ UNCHANGED <<graph, closedSet, currentNode, path, routeCoords, error, hostVars, visualVars>>

\* calculateRoute, lines 316-340: adjacency list and search state, all of
\* them objects created by this call.
CalcBegin ==
    /\ pc = "idle"
    /\ \E s \in Coordinates, e \in Coordinates :
        LET sn == findNearestNode(graph, s)
            en == findNearestNode(graph, e)
            ids == DOMAIN graph.nodes
        IN  /\ ~SnapFailed(sn, en)
            /\ sn # en
            /\ startCoord' = s
            /\ endCoord' = e
            /\ startNode' = sn
            /\ endNode' = en
            /\ gScore' = MapSet([id \in ids |-> Infinity], sn, 0)
            /\ fScore' = MapSet([id \in ids |-> Infinity], sn,
                                heuristicDistance(graph, sn, en))
            /\ previous' = [id \in ids |-> Null]
            /\ openSet' = <<sn>>
    /\ adjacencyList' = buildAdjacencyList(graph)
    /\ built' = TRUE
    /\ closedSet' = {}
    /\ pc' = "loop"
    /\ UNCHANGED <<graph, currentNode, path, routeCoords, error, hostVars, visualVars>>

\* Lines 343-358 and 412-413: open set empty, or no candidate selected.
LoopNoPath ==
    /\ pc = "loop"
    /\ LET sel == SelectCurrent(openSet, fScore)
       IN  /\ Len(openSet) = 0 \/ NoCandidate(sel)
           /\ currentNode' = IF Len(openSet) = 0 THEN currentNode ELSE sel.currentNode
    /\ pc' = "thrown"
    /\ error' = MsgNoPath
    /\ UNCHANGED <<graph, startCoord, endCoord, startNode, endNode, built,
                   adjacencyList, gScore, fScore, previous, openSet, closedSet,
                   path, routeCoords, hostVars, visualVars>>

\* Lines 360-380: the goal was selected.
LoopSuccess ==
    /\ pc = "loop"
    /\ Len(openSet) > 0
    /\ LET sel == SelectCurrent(openSet, fScore)
       IN  /\ ~NoCandidate(sel)
           /\ sel.currentNode = endNode
           /\ currentNode' = sel.currentNode
    /\ path' = ReconstructPath(previous, endNode)
    /\ routeCoords' = ToCoords(graph, path', 1)
    /\ pc' = "returned"
    /\ UNCHANGED <<graph, startCoord, endCoord, startNode, endNode, built,
                   adjacencyList, gScore, fScore, previous, openSet, closedSet,
                   error, hostVars, visualVars>>

\* Variant: the edges of the expanded node are taken out of graph.edges.
LoopExpandConsumesEdges ==
    /\ pc = "loop"
    /\ Len(openSet) > 0
    /\ LET sel == SelectCurrent(openSet, fScore)
           cur == sel.currentNode
           neighbors == IF cur \in DOMAIN adjacencyList THEN adjacencyList[cur] ELSE <<>>
           st == ExploreNeighbors(graph, cur, endNode, neighbors, 1,
                    [open |-> SetDelete(openSet, cur),
                     closed |-> closedSet \cup {cur},
                     g |-> gScore, f |-> fScore, prev |-> previous])
           kept == SelectSeq(graph.edges, LAMBDA e : e.from # cur)
       IN  /\ ~NoCandidate(sel)
           /\ cur # endNode
           /\ currentNode' = cur
           /\ openSet' = st.open
           /\ closedSet' = st.closed
           /\ gScore' = st.g
           /\ fScore' = st.f
           /\ previous' = st.prev
           /\ graph' = [graph EXCEPT !.edges = kept, !.edge_count = Len(kept)]
    /\ UNCHANGED <<pc, startCoord, endCoord, startNode, endNode, built,
                   adjacencyList, path, routeCoords, error, hostVars, visualVars>>

\* Lines 382-409: the selected node is closed and its neighbours relaxed.
LoopExpand ==
    /\ pc = "loop"
    /\ Len(openSet) > 0
    /\ LET sel == SelectCurrent(openSet, fScore)
           cur == sel.currentNode
           neighbors == IF cur \in DOMAIN adjacencyList THEN adjacencyList[cur] ELSE <<>>
           st == ExploreNeighbors(graph, cur, endNode, neighbors, 1,
                    [open |-> SetDelete(openSet, cur),
                     closed |-> closedSet \cup {cur},
                     g |-> gScore, f |-> fScore, prev |-> previous])
       IN  /\ ~NoCandidate(sel)
           /\ cur # endNode
           /\ currentNode' = cur
           /\ openSet' = st.open
           /\ closedSet' = st.closed
           /\ gScore' = st.g
           /\ fScore' = st.f
           /\ previous' = st.prev
    /\ UNCHANGED <<graph, pc, startCoord, endCoord, startNode, endNode, built,
                   adjacencyList, path, routeCoords, error, hostVars, visualVars>>

Next ==
    \/ CalcNearestFail
    \/ CalcSameNode
    \/ CalcBegin
    \/ LoopNoPath
    \/ LoopSuccess
    \/ LoopExpand

Spec == Init /\ [][Next]_vars

\* Graphs for the runs to completion: the empty graph, and every graph on
\* the ids 1..MaxNodes whose edges (self-loops and cycles included) all
\* join existing nodes, with weight 5 or weight 0.  Node 1 lies at the
\* origin (the mirrored layouts behave alike).
InitLive ==
    /\ \/ graph = GraphData(<<>>, <<>>, <<>>)
       \/ \E lons \in {l \in [1..MaxNodes -> 0..MaxLon] : l[1] = 0} :
            \E es \in SeqsUpTo({GraphEdge(f, t, w[2], w[1]) :
                                    f \in 1..MaxNodes, t \in 1..MaxNodes,
                                    w \in {<<5000, 1000>>, <<0, 0>>}}, MaxEdges) :
              graph = GraphData([id \in 1..MaxNodes |-> id],
                                [id \in 1..MaxNodes |-> GraphNode(id, 0, lons[id])], es)
    /\ InitCallState
    /\ InitVisualState({"settings"})

\* A call that has begun is carried on: the caller starts it and the loop
\* of lines 343-410 runs without waiting for anything.
SpecLive == InitLive /\ [][Next]_vars /\ WF_vars(Next)

\* ------------------------------------------------------------------------
\* RouteVisualization: the effect around calculateRoute (lines 24-47)
\* ------------------------------------------------------------------------
\* The effect runs to its end without yielding, so its state updates are
\* seen together: the call of line 40 is Calc*/Loop* above, and EffectSettle
\* is what lines 35-36 and 41-46 leave in the component's state.  The
\* component is mounted with a graph and both coordinates (lines 25-33 do
\* not return early).
\*
\* What a finished call hands to its caller: the returned array, or the
\* message of the thrown Error.
CallOutcome ==
    IF pc = "returned" THEN [kind |-> "returned", route |-> routeCoords, message |-> ""]
    ELSE [kind |-> "thrown", route |-> <<>>, message |-> error]

\* Variant: no catch clause; the exception leaves the effect.
EffectSettleNoCatch ==
    /\ pc \in {"returned", "thrown"}
    /\ IF pc = "returned"
       THEN /\ viewRouteCoords' = routeCoords
            /\ viewError' = Null
            /\ propagated' = propagated
       ELSE /\ viewRouteCoords' = viewRouteCoords
            /\ viewError' = Null
            /\ propagated' = TRUE
    /\ viewLoading' = FALSE
    /\ outcomes' = Append(outcomes, [startCoord |-> startCoord, endCoord |-> endCoord,
                                     outcome |-> CallOutcome])
    /\ pc' = IF Len(outcomes') < MaxCalls THEN "idle" ELSE "settled"
    /\ UNCHANGED <<graph, startCoord, endCoord, startNode, endNode, built,
                   adjacencyList, gScore, fScore, previous, openSet, closedSet,
                   currentNode, path, routeCoords, error, visualVars>>

\* Lines 35-46 around the call: setError(null), then setRouteCoords(route)
\* or, in the catch clause, setError(err.message) and setRouteCoords([]);
\* setLoading(true) of line 35 is undone by the finally clause.  The locals
\* of the finished call stay behind as garbage; the next run of the effect
\* (another coordinate pair, or the same) calls calculateRoute again.
EffectSettle ==
    /\ pc \in {"returned", "thrown"}
    /\ IF pc = "returned"
       THEN /\ viewRouteCoords' = routeCoords
            /\ viewError' = Null
       ELSE /\ viewRouteCoords' = <<>>
            /\ viewError' = Some(error)
    /\ propagated' = propagated
    /\ viewLoading' = FALSE
    /\ outcomes' = Append(outcomes, [startCoord |-> startCoord, endCoord |-> endCoord,
                                     outcome |-> CallOutcome])
    /\ pc' = IF Len(outcomes') < MaxCalls THEN "idle" ELSE "settled"
    /\ UNCHANGED <<graph, startCoord, endCoord, startNode, endNode, built,
                   adjacencyList, gScore, fScore, previous, openSet, closedSet,
                   currentNode, path, routeCoords, error, visualVars>>

\* Lines 49-71 and below: what the component shows for its state (the
\* graph is there; an empty message counts as no error).
RenderedView ==
    IF viewError # Null /\ viewError # Some("") THEN "error"
    ELSE IF viewLoading THEN "calculating"
    ELSE "map"

\* Graphs of the component's runs: node ids 1..n, node 1 at the origin
\* (the mirrored layouts behave alike), edges between existing nodes.
InitHost ==
    /\ \E n \in 0..MaxNodes :
         \E lons \in {l \in [1..n -> 0..MaxLon] : n = 0 \/ l[1] = 0} :
           \E es \in SeqsUpTo({e \in EdgesOver(1..n) : e.to # MissingId}, MaxEdges) :
             graph = GraphData([id \in 1..n |-> id],
                               [id \in 1..n |-> GraphNode(id, 0, lons[id])], es)
    /\ InitCallState
    /\ InitVisualState({"settings"})

NextHost ==
    \/ CalcNearestFail
    \/ CalcSameNode
    \/ CalcBegin
    \/ LoopNoPath
    \/ LoopSuccess
    \/ LoopExpand
    \/ EffectSettle

SpecHost == InitHost /\ [][NextHost]_vars

\* ------------------------------------------------------------------------
\* Visual: numbers and texts of the host's inputs
\* ------------------------------------------------------------------------
\* A JavaScript number: NaN, an infinity, or the decimal
\*     (-1)^neg * 0.d1 d2 ... dn * 10^exp
\* with digits d1 ... dn, d1 # 0 and dn # 0; zero has no digits and exp 0
\* (neg tells -0 from 0).  The decimal of a number is the shortest one
\* whose nearest double the number is.  Decimals of at most MaxSignificant
\* digits and their nearest doubles (inside the normal range) determine
\* each other, so each such decimal is the decimal of its double.
MaxSignificant == 15

NaN == [nan |-> TRUE, inf |-> FALSE, neg |-> FALSE, digits |-> <<>>, exp |-> 0]

Inf(neg) == [nan |-> FALSE, inf |-> TRUE, neg |-> neg, digits |-> <<>>, exp |-> 0]

\* How many zeros ds begins with, and how many it ends with.
LeadingZeros(ds) ==
    CHOOSE k \in 0..Len(ds) :
        /\ \A j \in 1..k : ds[j] = 0
        /\ k = Len(ds) \/ ds[k + 1] # 0

TrailingZeros(ds) ==
    CHOOSE k \in 0..Len(ds) :
        /\ \A j \in (Len(ds) - k + 1)..Len(ds) : ds[j] = 0
        /\ k = Len(ds) \/ ds[Len(ds) - k] # 0

StripTrailingZeros(ds) == SubSeq(ds, 1, Len(ds) - TrailingZeros(ds))

\* The number 0.ds * 10^exp in its normal form.
Dec(neg, ds, exp) ==
    LET k == LeadingZeros(ds)
        t == StripTrailingZeros(SubSeq(ds, k + 1, Len(ds)))
    IN  [nan |-> FALSE, inf |-> FALSE, neg |-> neg, digits |-> t,
         exp |-> IF t = <<>> THEN 0 ELSE exp - k]

RECURSIVE IntDigits(_)
IntDigits(n) == IF n < 10 THEN <<n>> ELSE Append(IntDigits(n \div 10), n % 10)

\* The number of v ten-thousandths.
DegreeScale == 10000

Num(v) == Dec(v < 0, IntDigits(Abs(v)), Len(IntDigits(Abs(v))) - 4)

isNaN(x) == x.nan

IsZero(x) == ~x.nan /\ ~x.inf /\ x.digits = <<>>

\* The first place where the digits a and b differ, or where one ends.
FirstDifference(a, b) ==
    CHOOSE i \in 1..(Len(a) + 1) :
        /\ \A j \in 1..(i - 1) : j <= Len(b) /\ a[j] = b[j]
        /\ i > Len(a) \/ i > Len(b) \/ a[i] # b[i]

CmpDigitsAt(a, b, i) ==
    IF i > Len(a) /\ i > Len(b) THEN 0
    ELSE IF i > Len(a) THEN 0 - 1
    ELSE IF i > Len(b) THEN 1
    ELSE IF a[i] < b[i] THEN 0 - 1
    ELSE 1

\* -1, 0 or 1 as 0.a is below, equal to or above 0.b (the digits in
\* normal form).
CmpDigits(a, b) == CmpDigitsAt(a, b, FirstDifference(a, b))

\* -1, 0 or 1 as |x| is below, equal to or above |y| (neither is NaN).
CmpMag(x, y) ==
    IF x.inf \/ y.inf
    THEN (IF x.inf /\ y.inf THEN 0 ELSE IF x.inf THEN 1 ELSE 0 - 1)
    ELSE IF IsZero(x) \/ IsZero(y)
    THEN (IF IsZero(x) /\ IsZero(y) THEN 0 ELSE IF IsZero(x) THEN 0 - 1 ELSE 1)
    ELSE IF x.exp # y.exp THEN (IF x.exp < y.exp THEN 0 - 1 ELSE 1)
    ELSE CmpDigits(x.digits, y.digits)

\* -1, 0 or 1 as x is below, equal to or above y; -0 equals 0.
Cmp(x, y) ==
    LET xneg == x.neg /\ ~IsZero(x)
        yneg == y.neg /\ ~IsZero(y)
    IN  IF xneg /\ ~yneg THEN 0 - 1
        ELSE IF ~xneg /\ yneg THEN 1
        ELSE IF xneg THEN CmpMag(y, x)
        ELSE CmpMag(x, y)

\* x >= y and x <= y; comparisons with NaN are false.
Geq(x, y) == ~x.nan /\ ~y.nan /\ Cmp(x, y) >= 0

Leq(x, y) == ~x.nan /\ ~y.nan /\ Cmp(x, y) <= 0

\* A primitive value of the host: a string (sequence of characters), a
\* number, or null.
StringValue(chars) == [type |-> "string", chars |-> chars, num |-> NaN]

NumberValue(x) == [type |-> "number", chars |-> <<>>, num |-> x]

NullValue == [type |-> "object", chars |-> <<>>, num |-> NaN]

Digits == <<"0", "1", "2", "3", "4", "5", "6", "7", "8", "9">>

IsDigit(c) == \E i \in 1..Len(Digits) : Digits[i] = c

DigitValue(c) == (CHOOSE i \in 1..Len(Digits) : Digits[i] = c) - 1

\* White space and line terminators of ECMAScript, skipped by trim and by
\* parseFloat.  A character that has no escape in a string of this
\* language is written as its code point.
WhiteSpace ==
    {" ", "\t", "\n", "\r", "\f", "U+000B", "U+00A0", "U+1680", "U+2000",
     "U+2001", "U+2002", "U+2003", "U+2004", "U+2005", "U+2006", "U+2007",
     "U+2008", "U+2009", "U+200A", "U+2028", "U+2029", "U+202F", "U+205F",
     "U+3000", "U+FEFF"}

\* How many white space characters chars begins with, and ends with.
LeadingWhiteSpace(chars) ==
    CHOOSE k \in 0..Len(chars) :
        /\ \A j \in 1..k : chars[j] \in WhiteSpace
        /\ k = Len(chars) \/ chars[k + 1] \notin WhiteSpace

TrailingWhiteSpace(chars) ==
    CHOOSE k \in 0..Len(chars) :
        /\ \A j \in (Len(chars) - k + 1)..Len(chars) : chars[j] \in WhiteSpace
        /\ k = Len(chars) \/ chars[Len(chars) - k] \notin WhiteSpace

TrimStart(chars) == SubSeq(chars, LeadingWhiteSpace(chars) + 1, Len(chars))

TrimEnd(chars) == SubSeq(chars, 1, Len(chars) - TrailingWhiteSpace(chars))

\* String.prototype.trim
Trim(chars) == TrimEnd(TrimStart(chars))

\* The decimal digits from position i on: where they end, and the digits.
DigitsEnd(chars, i) ==
    CHOOSE j \in i..(Len(chars) + 1) :
        /\ \A k \in i..(j - 1) : IsDigit(chars[k])
        /\ j > Len(chars) \/ ~IsDigit(chars[j])

ReadDigitsTo(chars, i, j) ==
    [digits |-> SubSeq([k \in 1..Len(chars) |->
                           IF IsDigit(chars[k]) THEN DigitValue(chars[k]) ELSE 0],
                       i, j - 1),
     next |-> j]

ReadDigits(chars, i) == ReadDigitsTo(chars, i, DigitsEnd(chars, i))

\* The digits of an exponent from position i on, as an integer that stops
\* growing at ExpCap (every double lies far inside 10^-ExpCap .. 10^ExpCap).
ExpCap == 100000

\* The natural of at most six digits.
RECURSIVE SmallValue(_)
SmallValue(ds) ==
    IF ds = <<>> THEN 0
    ELSE 10 * SmallValue(SubSeq(ds, 1, Len(ds) - 1)) + ds[Len(ds)]

CappedValue(ds) ==
    IF Len(ds) > 6 \/ SmallValue(ds) > ExpCap THEN ExpCap ELSE SmallValue(ds)

ReadExp(chars, i) ==
    CappedValue(SubSeq(ReadDigits(chars, i).digits,
                       LeadingZeros(ReadDigits(chars, i).digits) + 1,
                       Len(ReadDigits(chars, i).digits)))

InfinityWord == <<"I", "n", "f", "i", "n", "i", "t", "y">>

StartsWith(chars, word) ==
    Len(chars) >= Len(word) /\ SubSeq(chars, 1, Len(word)) = word

\* Naturals of any size, as their decimal digits: the most significant
\* digit first, no leading zero, <<>> for zero.
Zeros(k) == [i \in 1..k |-> 0]

BigNorm(a) == SubSeq(a, LeadingZeros(a) + 1, Len(a))

\* 2a + inc for inc 0 or 1: a digit of at least 5 carries into the next.
BigDouble(a, inc) ==
    BigNorm([i \in 1..(Len(a) + 1) |->
                ((IF i = 1 THEN 0 ELSE 2 * a[i - 1])
                 + (IF i = Len(a) + 1 THEN inc
                    ELSE IF a[i] >= 5 THEN 1 ELSE 0)) % 10])

\* a / 2 for an even a.
BigHalve(a) ==
    BigNorm([i \in 1..Len(a) |->
                ((IF i > 1 /\ a[i - 1] % 2 = 1 THEN 10 ELSE 0) + a[i]) \div 2])

\* a + 1: the nines at the end become zeros and the digit before them
\* grows.
TrailingNines(a) ==
    CHOOSE k \in 0..Len(a) :
        /\ \A j \in (Len(a) - k + 1)..Len(a) : a[j] = 9
        /\ k = Len(a) \/ a[Len(a) - k] # 9

BigSuccAt(a, k) ==
    IF k = Len(a) THEN <<1>> \o Zeros(k)
    ELSE SubSeq(a, 1, Len(a) - k - 1) \o <<a[Len(a) - k] + 1>> \o Zeros(k)

BigSucc(a) == BigSuccAt(a, TrailingNines(a))

BigCmp(a, b) ==
    IF Len(a) # Len(b) THEN (IF Len(a) < Len(b) THEN 0 - 1 ELSE 1)
    ELSE CmpDigits(a, b)

\* The digit of b that stands under the i-th digit of the longer a.
DigitUnder(a, b, i) ==
    IF i - (Len(a) - Len(b)) >= 1 THEN b[i - (Len(a) - Len(b))] ELSE 0

\* The first place behind i where a and b (under a) differ, or the place
\* behind the last digit.
NextDifference(a, b, i) ==
    CHOOSE j \in (i + 1)..(Len(a) + 1) :
        /\ \A l \in (i + 1)..(j - 1) : a[l] = DigitUnder(a, b, l)
        /\ j > Len(a) \/ a[j] # DigitUnder(a, b, j)

BorrowAt(a, b, j) == IF j <= Len(a) /\ a[j] < DigitUnder(a, b, j) THEN 1 ELSE 0

\* The digit at i borrows when behind it b is above a.
Borrow(a, b, i) == BorrowAt(a, b, NextDifference(a, b, i))

\* a - b for a >= b.
BigSub(a, b) ==
    BigNorm([i \in 1..Len(a) |->
                (a[i] - DigitUnder(a, b, i) - Borrow(a, b, i) + 10) % 10])

\* a * 2^k and a * 5^k, the power split in halves.
RECURSIVE BigTimesPow2(_, _)
BigTimesPow2(a, k) ==
    IF k = 0 \/ a = <<>> THEN a
    ELSE IF k = 1 THEN BigDouble(a, 0)
    ELSE LET half == BigTimesPow2(a, k \div 2)
         IN  IF half = <<>> THEN half ELSE BigTimesPow2(half, k - k \div 2)

RECURSIVE BigTimesPow5(_, _)
BigTimesPow5(a, k) ==
    IF k = 0 \/ a = <<>> THEN a
    ELSE IF k = 1 THEN BigHalve(a \o <<0>>)
    ELSE LET half == BigTimesPow5(a, k \div 2)
         IN  IF half = <<>> THEN half ELSE BigTimesPow5(half, k - k \div 2)

\* The natural n times 10^t as a number.
DecInt(neg, n, t) == Dec(neg, n, Len(n) + t)

\* A double (IEEE 754 binary64) without its sign: infinity, or m * 2^u
\* with m below 2^53, u from -1074 to 971, and m at least 2^52 unless
\* u = -1074; zero has m = <<>>.
TwoTo52 == <<4, 5, 0, 3, 5, 9, 9, 6, 2, 7, 3, 7, 0, 4, 9, 6>>

TwoTo53 == <<9, 0, 0, 7, 1, 9, 9, 2, 5, 4, 7, 4, 0, 9, 9, 2>>

MinUnit == 0 - 1074

MaxUnit == 971

DoubleInf == [inf |-> TRUE, m |-> <<>>, u |-> 0]

DoubleZero == [inf |-> FALSE, m |-> <<>>, u |-> 0]

Double(m, u) ==
    IF m = <<>> THEN DoubleZero
    ELSE IF m = TwoTo53
    THEN (IF u + 1 > MaxUnit THEN DoubleInf ELSE [inf |-> FALSE, m |-> TwoTo52, u |-> u + 1])
    ELSE IF u > MaxUnit THEN DoubleInf
    ELSE [inf |-> FALSE, m |-> m, u |-> u]

\* The positive decimal x as the fraction Numerator / Denominator.
Numerator(x) ==
    x.digits \o Zeros(IF x.exp > Len(x.digits) THEN x.exp - Len(x.digits) ELSE 0)

Denominator(x) ==
    <<1>> \o Zeros(IF Len(x.digits) > x.exp THEN Len(x.digits) - x.exp ELSE 0)

\* The fraction s.a / s.b * 2^s.q with its binary exponent moved until
\* s.b <= s.a < 2 s.b.
RECURSIVE BinaryExponent(_)
BinaryExponent(s) ==
    IF BigCmp(s.a, s.b) < 0
    THEN BinaryExponent([a |-> BigDouble(s.a, 0), b |-> s.b, q |-> s.q - 1])
    ELSE IF BigCmp(s.a, BigDouble(s.b, 0)) >= 0
    THEN BinaryExponent([a |-> s.a, b |-> BigDouble(s.b, 0), q |-> s.q + 1])
    ELSE s

\* a / b as a' / b' * 2^q for a given q.
Scaled(a, b, q) ==
    [a |-> IF q < 0 THEN BigTimesPow2(a, 0 - q) ELSE a,
     b |-> IF q > 0 THEN BigTimesPow2(b, q) ELSE b,
     q |-> q]

\* A binary exponent close to that of a decimal of exponent e: 10^(e-1)
\* is about 2^(3.3219 (e-1)).
NearBinaryExponent(e) == ((e - 1) * 33219) \div 10000

\* The next bit of mr.r / (2b), appended to mr.m.
ReadBit(mr, b) ==
    IF BigCmp(mr.r, b) >= 0
    THEN [m |-> BigDouble(mr.m, 1), r |-> BigDouble(BigSub(mr.r, b), 0)]
    ELSE [m |-> BigDouble(mr.m, 0), r |-> BigDouble(mr.r, 0)]

\* The next `bits` bits, read in two halves; what is left is mr.r / (2b)
\* of the unit, and when nothing is left the bits that follow are zeros.
RECURSIVE ReadBits(_, _, _)
ReadBits(mr, b, bits) ==
    IF bits = 0 THEN mr
    ELSE IF bits = 1 THEN ReadBit(mr, b)
    ELSE LET half == ReadBits(mr, b, bits \div 2)
         IN  IF half.r = <<>>
             THEN [m |-> BigTimesPow2(half.m, bits - bits \div 2), r |-> <<>>]
             ELSE ReadBits(half, b, bits - bits \div 2)

IsOdd(m) == Len(m) > 0 /\ m[Len(m)] % 2 = 1

\* Round to nearest, ties to even.
RoundHalfEven(mr, b, u) ==
    Double(IF BigCmp(mr.r, b) > 0 \/ (BigCmp(mr.r, b) = 0 /\ IsOdd(mr.m))
           THEN BigSucc(mr.m) ELSE mr.m,
           u)

\* s is (a / b) * 2^q with b <= a < 2b; u is the exponent of the unit.
RoundAt(s, u) ==
    IF s.q - u + 1 < 0 THEN DoubleZero
    ELSE RoundHalfEven(ReadBits([m |-> <<>>, r |-> s.a], s.b, s.q - u + 1), s.b, u)

RoundScaled(s) == RoundAt(s, IF s.q - 52 > MinUnit THEN s.q - 52 ELSE MinUnit)

\* The double nearest to the magnitude of the non-zero decimal x.
NearestDouble(x) ==
    IF x.exp > 309 THEN DoubleInf
    ELSE IF x.exp < 0 - 324 THEN DoubleZero
    ELSE RoundScaled(BinaryExponent(Scaled(Numerator(x), Denominator(x),
                                           NearBinaryExponent(x.exp))))

\* The exact decimal of the double d.
ExactDecimal(neg, d) ==
    IF d.u >= 0 THEN DecInt(neg, BigTimesPow2(d.m, d.u), 0)
    ELSE DecInt(neg, BigTimesPow5(d.m, 0 - d.u), d.u)

\* x cut after n digits, and the next decimal of n digits above that.
Below(x, n) == Dec(x.neg, SubSeq(x.digits, 1, n), x.exp)

AboveFrom(x, n, succ) == Dec(x.neg, succ, x.exp + Len(succ) - n)

Above(x, n) == AboveFrom(x, n, BigSucc(SubSeq(x.digits, 1, n)))

\* Above(x, n) is nearer to x than Below(x, n) is; half way the even one
\* of the two is the nearer.
UpperCloser(x, n) ==
    IF x.digits[n + 1] # 5 THEN x.digits[n + 1] > 5
    ELSE Len(x.digits) > n + 1 \/ x.digits[n] % 2 = 1

\* Some decimal of n digits has d as its nearest double; x is the exact
\* decimal of d.  What holds for n holds for every larger n.
HasDecimalOf(x, n, d) ==
    \/ n >= Len(x.digits)
    \/ NearestDouble(Below(x, n)) = d
    \/ NearestDouble(Above(x, n)) = d

\* The least n from lo to hi with HasDecimalOf(x, n, d), found by halving.
RECURSIVE FewestDigits(_, _, _, _)
FewestDigits(x, d, lo, hi) ==
    IF lo >= hi THEN lo
    ELSE IF HasDecimalOf(x, (lo + hi) \div 2, d)
    THEN FewestDigits(x, d, lo, (lo + hi) \div 2)
    ELSE FewestDigits(x, d, (lo + hi) \div 2 + 1, hi)

\* Of the decimals of n digits whose nearest double is d, the one nearest
\* to x.
NearestOf(x, n, d) ==
    IF n >= Len(x.digits) THEN x
    ELSE IF NearestDouble(Below(x, n)) # d THEN Above(x, n)
    ELSE IF NearestDouble(Above(x, n)) # d THEN Below(x, n)
    ELSE IF UpperCloser(x, n) THEN Above(x, n)
    ELSE Below(x, n)

\* The decimal with the fewest digits whose nearest double is d, and of
\* these the one nearest to d (the digits of Number::toString).
Shortest(x, d) == NearestOf(x, FewestDigits(x, d, 1, Len(x.digits)), d)

ShortestOf(neg, d) ==
    IF d.inf THEN Inf(neg)
    ELSE IF d.m = <<>> THEN Dec(neg, <<>>, 0)
    ELSE Shortest(ExactDecimal(neg, d), d)

\* The Number of a decimal: the double nearest to it, written as the
\* shortest decimal that denotes this double.  A decimal of at most
\* MaxSignificant digits inside the normal range is that decimal itself.
ToDouble(x) ==
    IF IsZero(x) THEN x
    ELSE IF Len(x.digits) <= MaxSignificant /\ x.exp >= 0 - 306 /\ x.exp <= 308
    THEN x
    ELSE ShortestOf(x.neg, NearestDouble(x))

\* parseFloat: leading white space skipped, then the longest prefix that
\* is a StrDecimalLiteral: a sign, "Infinity" or digits with at most one
\* point, and an exponent if digits follow the e; NaN when there is none.
\* The steps below read the text from left to right.
\*
\* The exponent whose digits begin at i (0 when there are none).
ExponentValue(negative, val) == IF negative THEN 0 - val ELSE val

ExponentAfterE(u, i) ==
    ExponentValue(i <= Len(u) /\ u[i] = "-",
                  ReadExp(u, IF i <= Len(u) /\ u[i] \in {"-", "+"} THEN i + 1 ELSE i))

\* The exponent part that begins at i, if there is one.
ExponentAt(u, i) ==
    IF i <= Len(u) /\ u[i] \in {"e", "E"} THEN ExponentAfterE(u, i + 1) ELSE 0

\* ip and fp are the digits before and behind the point.
ParseExponent(negative, u, ip, fp) ==
    IF Len(ip.digits) + Len(fp.digits) = 0 THEN NaN
    ELSE ToDouble(Dec(negative, ip.digits \o fp.digits,
                      Len(ip.digits) + ExponentAt(u, fp.next)))

ParseFraction(negative, u, ip) ==
    ParseExponent(negative, u, ip,
                  IF ip.next <= Len(u) /\ u[ip.next] = "."
                  THEN ReadDigits(u, ip.next + 1)
                  ELSE [digits |-> <<>>, next |-> ip.next])

ParseUnsigned(negative, u) ==
    IF StartsWith(u, InfinityWord) THEN Inf(negative)
    ELSE ParseFraction(negative, u, ReadDigits(u, 1))

ParseSigned(t) ==
    ParseUnsigned(Len(t) > 0 /\ t[1] = "-",
                  IF Len(t) > 0 /\ t[1] \in {"-", "+"} THEN Tail(t) ELSE t)

parseFloat(chars) == ParseSigned(TrimStart(chars))

\* ------------------------------------------------------------------------
\* Visual: inputs the host hands to update()
\* ------------------------------------------------------------------------
\* "", " \t", "x1", "1.81e2x", "\t-12.5\n"
Texts ==
    {<<>>, <<" ", "\t">>, <<"x", "1">>, <<"1", ".", "8", "1", "e", "2", "x">>,
     <<"\t", "-", "1", "2", ".", "5", "\n">>}

\* Values of a text field of the formatting pane; the last one is a value
\* that is not a string.
SettingValues ==
    {StringValue(t) : t \in Texts} \cup {NumberValue(Num(45 * DegreeScale))}

\* Cells of a table row.
CellValues ==
    {NumberValue(Num((0 - 91) * DegreeScale)), NumberValue(NaN),
     StringValue(<<"\t", "4", "5">>), StringValue(<<"x", "1">>), NullValue}

Viewports == {[width |-> 0, height |-> 0], [width |-> 300, height |-> 150]}

CoordinatesCard(startLat, startLon, endLat, endLon) ==
    [startLatitude |-> startLat, startLongitude |-> startLon,
     endLatitude |-> endLat, endLongitude |-> endLon]

\* settings.ts: the card as constructed, "51.4643", "-0.1660", "51.4907",
\* "-0.2067".
DefaultCard ==
    CoordinatesCard(StringValue(<<"5", "1", ".", "4", "6", "4", "3">>),
                    StringValue(<<"-", "0", ".", "1", "6", "6", "0">>),
                    StringValue(<<"5", "1", ".", "4", "9", "0", "7">>),
                    StringValue(<<"-", "0", ".", "2", "0", "6", "7">>))

\* Line 145-146: { lat: 51.4643, lon: -0.1660 }, { lat: 51.4907, lon: -0.2067 }
DefaultStart == [lat |-> Num(514643), lon |-> Num(0 - 1660)]

DefaultEnd == [lat |-> Num(514907), lon |-> Num(0 - 2067)]

LatMax == Num(90 * DegreeScale)

LatMin == Num((0 - 90) * DegreeScale)

LonMax == Num(180 * DegreeScale)

LonMin == Num((0 - 180) * DegreeScale)

MinSize == 200

\* ------------------------------------------------------------------------
\* Visual: parsing and validation
\* ------------------------------------------------------------------------
\* !value
Falsy(value) ==
    CASE value.type = "string" -> value.chars = <<>>
      [] value.type = "number" -> value.num.nan \/ IsZero(value.num)
      [] OTHER -> TRUE

Returned(x) == [threw |-> FALSE, num |-> x]

Threw == [threw |-> TRUE, num |-> NaN]

\* First class, lines 179-185; value.trim() of a value that is no string
\* throws.
\* Line 184: isNaN(parsed) ? NaN : parsed
ParsedOrNaN(parsed) == IF isNaN(parsed) THEN Returned(NaN) ELSE Returned(parsed)

parseCoordinateValue(value) ==
    IF Falsy(value) THEN Returned(NaN)
    ELSE IF value.type # "string" THEN Threw
    ELSE IF Trim(value.chars) = <<>> THEN Returned(NaN)
    ELSE ParsedOrNaN(parseFloat(Trim(value.chars)))

\* Line 446: isNaN(parsed) ? 0 : parsed
ParsedOrZero(parsed) == IF isNaN(parsed) THEN Num(0) ELSE parsed

\* Second class, lines 440-449.
parseValue(value) ==
    IF value.type = "number" THEN value.num
    ELSE IF value.type = "string" THEN ParsedOrZero(parseFloat(value.chars))
    ELSE Num(0)

\* Variant: only NaN is refused, the ranges are not looked at.
isValidCoordinateNoRange(lat, lon) == ~isNaN(lat) /\ ~isNaN(lon)

\* Lines 187-191 and 451-455 (the same text in both classes).
isValidCoordinate(lat, lon) ==
    /\ ~isNaN(lat) /\ ~isNaN(lon)
    /\ Geq(lat, LatMin) /\ Leq(lat, LatMax)
    /\ Geq(lon, LonMin) /\ Leq(lon, LonMax)

Coords(s, e) == [startCoord |-> s, endCoord |-> e]

\* Variant: each coordinate is accepted or cleared on its own.
\* Variant: each coordinate is accepted or cleared on its own.
ValidatedEach(startLat, startLon, endLat, endLon) ==
    IF startLat.threw \/ startLon.threw \/ endLat.threw \/ endLon.threw
    THEN Coords(Null, Null)
    ELSE Coords(IF isValidCoordinate(startLat.num, startLon.num)
                THEN Some([lat |-> startLat.num, lon |-> startLon.num])
                ELSE Null,
                IF isValidCoordinate(endLat.num, endLon.num)
                THEN Some([lat |-> endLat.num, lon |-> endLon.num])
                ELSE Null)

parseCoordinatesFromSettingsEach(settings) ==
    IF settings.coordinatesCard = Null
    THEN Coords(Some(DefaultStart), Some(DefaultEnd))
    ELSE ValidatedEach(parseCoordinateValue(settings.coordinatesCard[1].startLatitude),
                       parseCoordinateValue(settings.coordinatesCard[1].startLongitude),
                       parseCoordinateValue(settings.coordinatesCard[1].endLatitude),
                       parseCoordinateValue(settings.coordinatesCard[1].endLongitude))

\* Lines 163-176: the four parsed values are kept when both points are
\* valid; a throw of parseCoordinateValue ends in the catch clause.
ValidatedSettings(startLat, startLon, endLat, endLon) ==
    IF startLat.threw \/ startLon.threw \/ endLat.threw \/ endLon.threw
    THEN Coords(Null, Null)
    ELSE IF isValidCoordinate(startLat.num, startLon.num)
            /\ isValidCoordinate(endLat.num, endLon.num)
    THEN Coords(Some([lat |-> startLat.num, lon |-> startLon.num]),
                Some([lat |-> endLat.num, lon |-> endLon.num]))
    ELSE Coords(Null, Null)

\* First class, lines 140-177.  settings.coordinatesCard is Null when the
\* card is missing.
parseCoordinatesFromSettings(settings) ==
    IF settings.coordinatesCard = Null
    THEN Coords(Some(DefaultStart), Some(DefaultEnd))
    ELSE ValidatedSettings(parseCoordinateValue(settings.coordinatesCard[1].startLatitude),
                           parseCoordinateValue(settings.coordinatesCard[1].startLongitude),
                           parseCoordinateValue(settings.coordinatesCard[1].endLatitude),
                           parseCoordinateValue(settings.coordinatesCard[1].endLongitude))

\* Lines 425-431: the four values of the first row are kept when both
\* points are valid.
ValidatedRow(startLat, startLon, endLat, endLon, s, e) ==
    IF isValidCoordinate(startLat, startLon) /\ isValidCoordinate(endLat, endLon)
    THEN Coords(Some([lat |-> startLat, lon |-> startLon]),
                Some([lat |-> endLat, lon |-> endLon]))
    ELSE Coords(s, e)

\* Second class, lines 400-438.  dataView.table is Null or Some(rows); the
\* coordinates stay as they are unless a full valid row is read.
parseDataView(dataView, s, e) ==
    IF dataView.table = Null THEN Coords(s, e)
    ELSE IF Len(dataView.table[1]) = 0 THEN Coords(s, e)
    ELSE IF Len(dataView.table[1][1]) >= 4
    THEN ValidatedRow(parseValue(dataView.table[1][1][1]),
                      parseValue(dataView.table[1][1][2]),
                      parseValue(dataView.table[1][1][3]),
                      parseValue(dataView.table[1][1][4]), s, e)
    ELSE Coords(s, e)

\* ------------------------------------------------------------------------
\* Visual: rendering, update(), loadGraphData()
\* ------------------------------------------------------------------------
Max(a, b) == IF a > b THEN a ELSE b

\* Lines 199-200: Math.max(this.width || 200, 200); the second class
\* passes the size on as it is.
RenderSize(class, size) ==
    IF class = "settings" THEN Max(IF size = 0 THEN MinSize ELSE size, MinSize)
    ELSE size

\* renderVisual, lines 193-259 and 457-489: what the React root is given.
renderVisual(class, s, e, gd, w, h) ==
    IF s = Null \/ e = Null
    THEN [view |-> "coordinatesRequired", startCoord |-> Null, endCoord |-> Null,
          graphData |-> Null,
          width |-> RenderSize(class, w), height |-> RenderSize(class, h)]
    ELSE IF gd = Null
    THEN [view |-> "loadingGraph", startCoord |-> Null, endCoord |-> Null,
          graphData |-> Null,
          width |-> RenderSize(class, w), height |-> RenderSize(class, h)]
    ELSE [view |-> "RouteVisualization", startCoord |-> s, endCoord |-> e,
          graphData |-> gd,
          width |-> RenderSize(class, w), height |-> RenderSize(class, h)]

\* What the host may hand to update() of the first class: a populated
\* settings model, one without the card, or a populate call that throws
\* (the catch clause then takes new VisualFormattingSettingsModel()).
SettingsInputs ==
    {[coordinatesCard |-> Some(CoordinatesCard(a, b, c, d))] :
        a \in SettingValues, b \in SettingValues,
        c \in SettingValues, d \in SettingValues}
      \cup {[coordinatesCard |-> Null], [coordinatesCard |-> Some(DefaultCard)]}

\* update() of either class once the coordinates are parsed: the viewport
\* and the coordinates are stored and the view is rendered (lines 130-137,
\* 388-397).
UpdateWith(parsed, viewport) ==
    /\ width' = viewport.width
    /\ height' = viewport.height
    /\ visualStartCoord' = parsed.startCoord
    /\ visualEndCoord' = parsed.endCoord
    /\ rendered' = renderVisual(visualClass, parsed.startCoord, parsed.endCoord,
                                graphData, viewport.width, viewport.height)

\* First class, update(), lines 117-138.
UpdateSettings ==
    /\ visualClass = "settings"
    /\ \E settings \in SettingsInputs, viewport \in Viewports :
         UpdateWith(parseCoordinatesFromSettings(settings), viewport)
    /\ updated' = TRUE
    /\ UNCHANGED <<visualClass, graphData, loadState, routeVars, hostVars>>

\* Rows of the table: four cells, or too few.
Rows ==
    [1..4 -> CellValues] \cup {<<NumberValue(Num(45 * DegreeScale)),
                                  NumberValue(Num(45 * DegreeScale)),
                                  NumberValue(Num(45 * DegreeScale))>>}

DataViews ==
    {[table |-> Null], [table |-> Some(<<>>)]}
        \cup {[table |-> Some(<<row>>)] : row \in Rows}

\* Second class, update(), lines 382-398; dataViews is Null when the
\* options carry no data view.
UpdateDataView ==
    /\ visualClass = "dataView"
    /\ \E dataViews \in {Null} \cup {Some(dv) : dv \in DataViews}, viewport \in Viewports :
         UpdateWith(IF dataViews = Null
                    THEN Coords(visualStartCoord, visualEndCoord)
                    ELSE parseDataView(dataViews[1], visualStartCoord, visualEndCoord),
                    viewport)
    /\ updated' = TRUE
    /\ UNCHANGED <<visualClass, graphData, loadState, routeVars, hostVars>>

\* Variant: no render follows the load.
RenderAfterLoadSkips(gd) == rendered

\* After this.graphData = data: the first class always renders again
\* (lines 96-97, 107-108), the second only with both coordinates
\* (lines 357-359, 369-371).
RenderAfterLoad(gd) ==
    IF visualClass = "settings" \/ (visualStartCoord # Null /\ visualEndCoord # Null)
    THEN renderVisual(visualClass, visualStartCoord, visualEndCoord, gd, width, height)
    ELSE rendered

\* loadGraphData, `await fetch(graphPath)` answered with response.ok: the
\* function goes on to `await response.json()` (lines 88-93, 350-355).
FetchAnswered ==
    /\ loadState = "fetching"
    /\ loadState' = "reading"
    /\ UNCHANGED <<visualClass, visualStartCoord, visualEndCoord, graphData, width,
                   height, rendered, updated, routeVars, hostVars>>

\* loadGraphData, the body of the first answer read: this.graphData = data
\* and the render that follows (lines 93-97, 355-359).
LoadGraphOk ==
    /\ loadState = "reading"
    /\ graphData' = Some(graph)
    /\ rendered' = RenderAfterLoad(Some(graph))
    /\ loadState' = "done"
    /\ UNCHANGED <<visualClass, visualStartCoord, visualEndCoord, width, height,
                   updated, routeVars, hostVars>>

\* loadGraphData, first attempt failed (fetch rejected, response not ok,
\* or json() rejected): the catch clause fetches ./osm_graph.json.
LoadGraphFail ==
    /\ loadState \in {"fetching", "reading"}
    /\ loadState' = "fetchingAlt"
    /\ UNCHANGED <<visualClass, visualStartCoord, visualEndCoord, graphData, width,
                   height, rendered, updated, routeVars, hostVars>>

\* loadGraphData, second fetch answered with altResponse.ok: the function
\* goes on to `await altResponse.json()` (lines 103-105, 365-367).
AltFetchAnswered ==
    /\ loadState = "fetchingAlt"
    /\ loadState' = "readingAlt"
    /\ UNCHANGED <<visualClass, visualStartCoord, visualEndCoord, graphData, width,
                   height, rendered, updated, routeVars, hostVars>>

\* loadGraphData, the body of the second answer read (lines 105-108,
\* 367-371).
LoadAltOk ==
    /\ loadState = "readingAlt"
    /\ graphData' = Some(graph)
    /\ rendered' = RenderAfterLoad(Some(graph))
    /\ loadState' = "done"
    /\ UNCHANGED <<visualClass, visualStartCoord, visualEndCoord, width, height,
                   updated, routeVars, hostVars>>

\* loadGraphData, second attempt without a graph (fetch rejected, response
\* not ok, or json() rejected): graphData stays null.
LoadAltFail ==
    /\ loadState \in {"fetchingAlt", "readingAlt"}
    /\ loadState' = "done"
    /\ UNCHANGED <<visualClass, visualStartCoord, visualEndCoord, graphData, width,
                   height, rendered, updated, routeVars, hostVars>>

\* Either Visual after its constructor; the file it fetches holds the
\* chain graph.
InitVisual ==
    /\ graph = ScenarioGraph
    /\ InitCallState
    /\ InitVisualState({"settings", "dataView"})

NextVisual ==
    \/ UpdateSettings
    \/ UpdateDataView
    \/ FetchAnswered
    \/ LoadGraphOk
    \/ LoadGraphFail
    \/ AltFetchAnswered
    \/ LoadAltOk
    \/ LoadAltFail

SpecVisual == InitVisual /\ [][NextVisual]_vars

TypeOK ==
    /\ pc \in {"idle", "loop", "returned", "thrown", "settled"}
    /\ error \in {"", MsgNearest, MsgNoPath}

\* ------------------------------------------------------------------------
\* Reference notions the properties are stated with
\* ------------------------------------------------------------------------
NodeSet == DOMAIN graph.nodes

CoordOf(id) == Coordinate(graph.nodes[id].lat, graph.nodes[id].lon)

Finished == pc \in {"returned", "thrown"}

Min(a, b) == IF a < b THEN a ELSE b

RECURSIVE MinOver(_, _)
MinOver(S, init) ==
    IF S = {} THEN init
    ELSE LET x == CHOOSE y \in S : TRUE
         IN  MinOver(S \ {x}, Min(init, x))

\* Weight the search uses for an edge, read off the edge record.
WeightOfEdge(e) == IF e.travel_time > 0 THEN e.travel_time ELSE e.length

\* Edges between two existing nodes.
RealEdges ==
    {i \in 1..Len(graph.edges) :
        graph.edges[i].from \in NodeSet /\ graph.edges[i].to \in NodeSet}

\* Exhaustive shortest-path weights from node s (Bellman-Ford rounds).
RECURSIVE ShortestRounds(_, _)
ShortestRounds(d, k) ==
    IF k = 0 THEN d
    ELSE ShortestRounds(
            [n \in NodeSet |->
                MinOver({Plus(d[graph.edges[i].from], WeightOfEdge(graph.edges[i])) :
                            i \in {j \in RealEdges : graph.edges[j].to = n}},
                        d[n])],
            k - 1)

ShortestWeight(s, t) ==
    ShortestRounds([n \in NodeSet |-> IF n = s THEN 0 ELSE Infinity],
                   Cardinality(NodeSet))[t]

PathExists(s, t) == ShortestWeight(s, t) < Infinity

\* h(n) never exceeds the true minimal remaining weight to the goal.
Admissible(goal) ==
    \A n \in NodeSet : heuristicDistance(graph, n, goal) <= ShortestWeight(n, goal)

\* Cheapest edge from a to b, Infinity if there is none.
CheapestEdge(a, b) ==
    MinOver({WeightOfEdge(graph.edges[i]) :
                i \in {j \in 1..Len(graph.edges) :
                          graph.edges[j].from = a /\ graph.edges[j].to = b}},
            Infinity)

RECURSIVE TrailWeight(_, _)
TrailWeight(ids, i) ==
    IF i >= Len(ids) THEN 0
    ELSE Plus(CheapestEdge(ids[i], ids[i + 1]), TrailWeight(ids, i + 1))

\* ------------------------------------------------------------------------
\* Properties
\* ------------------------------------------------------------------------

\* C1: with non-negative weights and an admissible heuristic, the total
\* weight of a returned route (here: of one that runs from the start node
\* to the end node) is the minimum over all directed paths from the
\* snapped start node to the snapped end node.
C1_OptimalRoute ==
    (pc = "returned" /\ built /\ Admissible(endNode)
        /\ Len(path) >= 1 /\ path[1] = startNode /\ path[Len(path)] = endNode)
        => TrailWeight(path, 1) = ShortestWeight(startNode, endNode)

\* C2: a returned route follows real edges: every coordinate is the position
\* of a node of the graph, and from the node of each coordinate to the node
\* of the next there is an edge of graph.edges in that direction.
C2_RouteFollowsEdges ==
    pc = "returned" =>
        /\ \A i \in 1..Len(routeCoords) : \E n \in NodeSet : routeCoords[i] = CoordOf(n)
        /\ built =>
            /\ Len(routeCoords) = Len(path)
            /\ \A i \in 1..Len(path) :
                  path[i] \in NodeSet /\ routeCoords[i] = CoordOf(path[i])
            /\ \A i \in 1..(Len(path) - 1) :
                  \E j \in 1..Len(graph.edges) :
                      graph.edges[j].from = path[i] /\ graph.edges[j].to = path[i + 1]

C2_Witness ==
    pc = "returned" /\ built /\ Len(routeCoords) = 3

\* C3: a returned route starts with the coordinate of the snapped start
\* node and ends with that of the snapped end node; the predecessor trail
\* runs from the start node to the end node.
C3_RouteEndpoints ==
    pc = "returned" =>
        /\ Len(routeCoords) >= 1
        /\ routeCoords[1] = CoordOf(startNode)
        /\ routeCoords[Len(routeCoords)] = CoordOf(endNode)
        /\ built => (Len(path) >= 1 /\ path[1] = startNode /\ path[Len(path)] = endNode)

\* C4: when the snapped nodes are distinct and no directed path leads from
\* the start node to the end node, the call ends with the no-path failure
\* and no route.
C4_NoPathReported ==
    (Finished /\ startNode \in NodeSet /\ endNode \in NodeSet
        /\ startNode # endNode /\ ~PathExists(startNode, endNode))
        => (pc = "thrown" /\ error = MsgNoPath /\ routeCoords = <<>>)

\* C5: the no-path failure is raised only when the goal is unreachable:
\* when some directed path leads from the snapped start node to the snapped
\* end node, the call does not end with the no-path failure.
C5_PathFound ==
    (Finished /\ startNode \in NodeSet /\ endNode \in NodeSet
        /\ PathExists(startNode, endNode))
        => error # MsgNoPath

\* C6: when both coordinates snap to the same node, the call returns the
\* one-element route of that node's coordinate and builds no adjacency
\* list and no search state.
C6_SameNodeShortCircuit ==
    (Finished /\ startNode \in NodeSet /\ startNode = endNode)
        => /\ pc = "returned"
           /\ routeCoords = <<CoordOf(startNode)>>
           /\ ~built
           /\ adjacencyList = <<>> /\ gScore = <<>> /\ fScore = <<>>
           /\ previous = <<>> /\ openSet = <<>> /\ closedSet = {}

\* C7: on a graph with at least one node, each snapped id is the id of a
\* node of the graph that is at least as close to the query point as every
\* node of the graph.
C7_NearestNode ==
    (pc # "idle" /\ NodeSet # {}) =>
        /\ startNode \in NodeSet /\ graph.nodes[startNode].id = startNode
        /\ endNode \in NodeSet /\ graph.nodes[endNode].id = endNode
        /\ \A m \in NodeSet :
              /\ Abs(graph.nodes[startNode].lon - startCoord.lon)
                    <= Abs(graph.nodes[m].lon - startCoord.lon)
              /\ Abs(graph.nodes[endNode].lon - endCoord.lon)
                    <= Abs(graph.nodes[m].lon - endCoord.lon)

C7_Witness ==
    /\ pc # "idle"
    /\ Cardinality(NodeSet) = 3
    /\ startNode # NodeKeyOrder(graph)[1]
    /\ \E m \in NodeSet :
          Abs(graph.nodes[m].lon - startCoord.lon)
              > Abs(graph.nodes[startNode].lon - startCoord.lon)

\* C8: on a graph without nodes every call ends with the nearest-node
\* failure, which differs from the no-path failure; no adjacency list or
\* search state is built and the sentinel is used nowhere as a node.
C8_ZeroNodes ==
    (pc # "idle" /\ NodeSet = {}) =>
        /\ pc = "thrown"
        /\ error = MsgNearest
        /\ error # MsgNoPath
        /\ ~built
        /\ adjacencyList = <<>> /\ gScore = <<>> /\ fScore = <<>>
        /\ previous = <<>> /\ openSet = <<>> /\ closedSet = {}
        /\ path = <<>> /\ routeCoords = <<>>

C8_Witness ==
    pc = "thrown" /\ NodeSet = {} /\ startCoord # endCoord

\* C9: on a graph with at least one node both endpoints are snapped to
\* existing nodes and the call does not end with the nearest-node failure.
C9_NoNearestFailure ==
    (pc # "idle" /\ NodeSet # {}) =>
        /\ startNode \in NodeSet
        /\ endNode \in NodeSet
        /\ error # MsgNearest

\* C10: the weight of every adjacency entry is the edge's travel_time when
\* that is positive and its length otherwise; on the chain 1->2
\* (travel_time 5, length 1), 2->3 (travel_time 0, length 20) the gScore
\* of node 3 is 25 when the goal is reached from node 1.
ChainEdges ==
    <<GraphEdge(1, 2, 1000, 5000), GraphEdge(2, 3, 20000, 0)>>

C10_WeightSelection ==
    built =>
        /\ \A n \in DOMAIN adjacencyList :
              LET es == SelectSeq(graph.edges, LAMBDA e : e.from = n)
              IN  /\ Len(adjacencyList[n]) = Len(es)
                  /\ \A k \in 1..Len(es) :
                        adjacencyList[n][k].weight =
                            IF es[k].travel_time > 0 THEN es[k].travel_time
                            ELSE es[k].length
        /\ (graph.edges = ChainEdges /\ startNode = 1 /\ endNode = 3
                /\ pc = "returned")
              => gScore[3] = 25000

C10_Witness ==
    /\ graph.edges = ChainEdges
    /\ startNode = 1
    /\ endNode = 3
    /\ pc = "returned"
    /\ currentNode = 3

\* Number of entries of all adjacency lists together.
RECURSIVE AdjacencySize(_, _)
AdjacencySize(adj, keys) ==
    IF keys = {} THEN 0
    ELSE LET k == CHOOSE x \in keys : TRUE
         IN  Len(adj[k]) + AdjacencySize(adj, keys \ {k})

\* C11: once built, the adjacency list of every node id n is exactly the
\* subsequence of graph.edges with from = n, in the order of graph.edges,
\* each as (to, weight); parallel edges stay separate entries, the entries
\* of all lists together are as many as the edges, and a node without an
\* outgoing edge has no entries.
C11_AdjacencyContents ==
    built =>
        /\ DOMAIN adjacencyList =
              {graph.edges[i].from : i \in 1..Len(graph.edges)}
        /\ \A n \in DOMAIN adjacencyList :
              LET es == SelectSeq(graph.edges, LAMBDA e : e.from = n)
              IN  adjacencyList[n] =
                      [k \in 1..Len(es) |->
                          [node |-> es[k].to, weight |-> WeightOfEdge(es[k])]]
        /\ AdjacencySize(adjacencyList, DOMAIN adjacencyList) = Len(graph.edges)
        /\ \A a \in NodeSet, b \in NodeSet :
              (a \in DOMAIN adjacencyList
                    /\ \E k \in 1..Len(adjacencyList[a]) :
                          adjacencyList[a][k].node = b)
                 <=> (\E i \in 1..Len(graph.edges) :
                        graph.edges[i].from = a /\ graph.edges[i].to = b)

\* Two parallel edges of different weight, both kept, in edge order.
C11_Witness ==
    /\ built
    /\ Len(graph.edges) = 2
    /\ graph.edges[1].from = graph.edges[2].from
    /\ graph.edges[1].to = graph.edges[2].to
    /\ WeightOfEdge(graph.edges[1]) # WeightOfEdge(graph.edges[2])
    /\ Len(adjacencyList[graph.edges[1].from]) = 2

\* What calculateRoute hands back when it runs on g from nothing but its
\* arguments: no state of any earlier call enters.
RECURSIVE SearchFromScratch(_, _, _, _)
SearchFromScratch(g, adj, goal, st) ==
    LET sel == SelectCurrent(st.open, st.f)
        cur == sel.currentNode
    IN  IF Len(st.open) = 0 \/ NoCandidate(sel)
        THEN [kind |-> "thrown", route |-> <<>>, message |-> MsgNoPath]
        ELSE IF cur = goal
        THEN [kind |-> "returned",
              route |-> ToCoords(g, ReconstructPath(st.prev, goal), 1),
              message |-> ""]
        ELSE SearchFromScratch(g, adj, goal,
                ExploreNeighbors(g, cur, goal,
                    IF cur \in DOMAIN adj THEN adj[cur] ELSE <<>>, 1,
                    [open |-> SetDelete(st.open, cur),
                     closed |-> st.closed \cup {cur},
                     g |-> st.g, f |-> st.f, prev |-> st.prev]))

OutcomeFromScratch(g, s, e) ==
    LET sn == findNearestNode(g, s)
        en == findNearestNode(g, e)
        ids == DOMAIN g.nodes
    IN  IF SnapFailed(sn, en)
        THEN [kind |-> "thrown", route |-> <<>>, message |-> MsgNearest]
        ELSE IF sn = en
        THEN [kind |-> "returned",
              route |-> <<Coordinate(g.nodes[sn].lat, g.nodes[sn].lon)>>,
              message |-> ""]
        ELSE SearchFromScratch(g, buildAdjacencyList(g), en,
                [open |-> <<sn>>, closed |-> {},
                 g |-> MapSet([id \in ids |-> Infinity], sn, 0),
                 f |-> MapSet([id \in ids |-> Infinity], sn,
                              heuristicDistance(g, sn, en)),
                 prev |-> [id \in ids |-> Null]])

\* C12: calculateRoute is deterministic and keeps nothing between calls:
\* a finished call has the outcome (route, or kind of failure) of every
\* earlier call with the same graph and coordinates, and its outcome is the
\* one the call has on its own, whatever calls went before it.
C12_DeterministicStateless ==
    pc \in {"returned", "thrown"} =>
        /\ \A i \in 1..Len(outcomes) :
              (outcomes[i].startCoord = startCoord /\ outcomes[i].endCoord = endCoord)
                  => outcomes[i].outcome = CallOutcome
        /\ CallOutcome = OutcomeFromScratch(graph, startCoord, endCoord)

\* A second search for the same pair, after a first one that closed nodes,
\* ends with the same route.
C12_Witness ==
    /\ pc = "returned"
    /\ Len(outcomes) = 1
    /\ outcomes[1].startCoord = startCoord
    /\ outcomes[1].endCoord = endCoord
    /\ outcomes[1].outcome.kind = "returned"
    /\ Len(routeCoords) = 3

\* C13: no step of calculateRoute, and no step around it, changes the
\* graph: nodes, edges, node_count and edge_count are the same after every
\* step, hence before and after every call.
C13_GraphUnchanged ==
    [][/\ graph'.nodes = graph.nodes
       /\ graph'.edges = graph.edges
       /\ graph'.node_order = graph.node_order
       /\ graph'.node_count = graph.node_count
       /\ graph'.edge_count = graph.edge_count]_vars

\* A second call has searched the graph the first one searched.
C13_Witness ==
    /\ Len(outcomes) = 1
    /\ pc = "thrown"
    /\ error = MsgNoPath
    /\ closedSet # {}
    /\ Len(graph.edges) >= 2
    /\ graph.edge_count = Len(graph.edges)

\* C14: on the chain 1:(0,0), 2:(0,0.001), 3:(0,0.002) with edges 1->2 and
\* 2->3 (travel_time 5, length 1 each) the call from (0,0) to (0,0.002)
\* returns exactly (0,0), (0,0.001), (0,0.002), and the call from (0,0.002)
\* to (0,0) reports that no path exists.
C14_ChainScenario ==
    (graph = ScenarioGraph /\ pc \in {"returned", "thrown"}) =>
        /\ (startCoord = Coordinate(0, 0) /\ endCoord = Coordinate(0, 2))
              => /\ pc = "returned"
                 /\ routeCoords =
                        <<Coordinate(0, 0), Coordinate(0, 1), Coordinate(0, 2)>>
        /\ (startCoord = Coordinate(0, 2) /\ endCoord = Coordinate(0, 0))
              => /\ pc = "thrown"
                 /\ error = MsgNoPath

C14_Witness ==
    /\ graph = ScenarioGraph
    /\ startCoord = Coordinate(0, 0)
    /\ endCoord = Coordinate(0, 2)
    /\ pc = "returned"
    /\ path = <<1, 2, 3>>

\* The reverse query of the scenario has ended.
C14_ReverseReached ==
    /\ graph = ScenarioGraph
    /\ startCoord = Coordinate(0, 2)
    /\ endCoord = Coordinate(0, 0)
    /\ pc = "thrown"
    /\ closedSet = {3}

\* C15: when calculateRoute throws, the effect catches the exception: the
\* component's error becomes the exception's message and is shown instead
\* of the map, routeCoords becomes empty, loading is false again, and no
\* exception leaves the effect; when a run (a later one included) succeeds,
\* the error is cleared and the new route is stored and shown.
C15_EffectCatches ==
    /\ ~propagated
    /\ outcomes # <<>> =>
          LET last == outcomes[Len(outcomes)].outcome
          IN  /\ ~viewLoading
              /\ last.kind = "thrown" =>
                    /\ viewError = Some(last.message)
                    /\ last.message \in {MsgNearest, MsgNoPath}
                    /\ viewRouteCoords = <<>>
                    /\ RenderedView = "error"
              /\ last.kind = "returned" =>
                    /\ viewError = Null
                    /\ viewRouteCoords = last.route
                    /\ RenderedView = "map"

\* A failed run followed by a successful one.
C15_Witness ==
    /\ Len(outcomes) = 2
    /\ outcomes[1].outcome.kind = "thrown"
    /\ outcomes[2].outcome.kind = "returned"
    /\ viewError = Null
    /\ Len(viewRouteCoords) >= 2

\* C16: as the README promises Dijkstra's algorithm, a returned route has
\* the total weight of Dijkstra's shortest path from the snapped start node
\* to the snapped end node, with no assumption on the heuristic (stated for
\* routes that run from the start node to the end node, in searches where
\* no fScore of 0 arose).
C16_DijkstraAgreement ==
    (pc = "returned" /\ built
        /\ Len(path) >= 1 /\ path[1] = startNode /\ path[Len(path)] = endNode
        /\ \A n \in NodeSet : fScore[n] # 0)
        => TrailWeight(path, 1) = ShortestWeight(startNode, endNode)

\* A coordinate whose latitude and longitude are numbers inside the ranges.
InRange(coord) ==
    /\ ~coord.lat.nan /\ ~coord.lon.nan
    /\ ~coord.lat.inf /\ CmpMag(coord.lat, LatMax) <= 0
    /\ ~coord.lon.inf /\ CmpMag(coord.lon, LonMax) <= 0

\* C17: in both Visual classes, after any sequence of update() calls and
\* graph-load completions, startCoord and endCoord are each null or a
\* coordinate that is not NaN with latitude in [-90, 90] and longitude in
\* [-180, 180]; RouteVisualization is rendered only with two such
\* coordinates and a graph that is not null.
C17_ValidCoordinates ==
    /\ visualStartCoord = Null \/ InRange(visualStartCoord[1])
    /\ visualEndCoord = Null \/ InRange(visualEndCoord[1])
    /\ rendered.view = "RouteVisualization" =>
          /\ rendered.startCoord # Null /\ InRange(rendered.startCoord[1])
          /\ rendered.endCoord # Null /\ InRange(rendered.endCoord[1])
          /\ rendered.graphData # Null

\* The table Visual shows a route for coordinates read from text and
\* number cells; the settings Visual does so for its defaults.
C17_Witness ==
    /\ rendered.view = "RouteVisualization"
    /\ visualClass = "dataView"
    /\ visualStartCoord = Some([lat |-> Num(450000), lon |-> Num(0 - 910000)])
    /\ visualEndCoord = Some([lat |-> Num(0), lon |-> Num(0)])

\* C18: every call reaches a terminal state (route returned or error
\* thrown) after finitely many iterations; every iteration that does not
\* end the call moves exactly one node from the open set to the closed set,
\* a node that was not closed before, so no node is expanded twice.
C18_Termination ==
    /\ [][(pc = "loop" /\ pc' = "loop") =>
            \E n \in NodeSet :
                /\ SetHas(openSet, n)
                /\ n \notin closedSet
                /\ closedSet' = closedSet \cup {n}
                /\ ~SetHas(openSet', n)
                /\ \A m \in NodeSet \ {n} : SetHas(openSet, m) => SetHas(openSet', m)]_vars
    /\ <>(pc \in {"returned", "thrown"})

\* A search over a cycle has ended: both nodes of an edge pair a -> b,
\* b -> a were expanded.
C18_Witness ==
    /\ pc \in {"returned", "thrown"}
    /\ Cardinality(closedSet) >= 2
    /\ \E i \in 1..Len(graph.edges), j \in 1..Len(graph.edges) :
          /\ graph.edges[i].from = graph.edges[j].to
          /\ graph.edges[i].to = graph.edges[j].from
          /\ graph.edges[i].from # graph.edges[i].to
          /\ {graph.edges[i].from, graph.edges[i].to} \subseteq closedSet

\* Position of node n in the open set's insertion order.
OpenIndex(open, n) == CHOOSE i \in 1..Len(open) : open[i] = n

\* C19: in every loop iteration the node chosen as current has an fScore
\* less than or equal to that of every node of the open set (0 included),
\* and of the open nodes with that fScore it is the one inserted first
\* (stated for graphs whose node ids are all positive).
C19_SelectsMinimum ==
    [][(pc = "loop" /\ pc' \in {"loop", "returned"}
            /\ \A n \in NodeSet : n > 0) =>
          \A i \in 1..Len(openSet) :
              /\ fScore[currentNode'] <= fScore[openSet[i]]
              /\ fScore[currentNode'] = fScore[openSet[i]]
                    => OpenIndex(openSet, currentNode') <= i]_vars

\* C20: relaxation only improves: a loop step changes the gScore or the
\* predecessor of a node whose gScore is finite only to a strictly smaller
\* gScore (whatever the present value, 0 included), so a finite gScore
\* never increases and on a tie the predecessor stays (stated for graphs
\* whose node ids are all positive).
C20_RelaxationImproves ==
    [][(pc = "loop" /\ pc' = "loop" /\ \A n \in NodeSet : n > 0) =>
          \A n \in DOMAIN gScore :
              gScore[n] < Infinity =>
                  /\ gScore'[n] <= gScore[n]
                  /\ gScore'[n] = gScore[n] => previous'[n] = previous[n]]_vars

\* C21: a search begins with the start node alone in the open set, with
\* gScore 0 and fScore heuristic(start, goal); in every state the open set
\* and the closed set are disjoint; a node of the closed set stays closed,
\* never enters the open set again, and its gScore, fScore and predecessor
\* are not modified any more (self-loops included).
C21_OpenClosedDiscipline ==
    [][/\ (pc = "idle" /\ pc' = "loop") =>
            /\ openSet' = <<startNode'>>
            /\ closedSet' = {}
            /\ gScore'[startNode'] = 0
            /\ fScore'[startNode'] = heuristicDistance(graph, startNode', endNode')
            /\ \A n \in NodeSet \ {startNode'} :
                  gScore'[n] = Infinity /\ fScore'[n] = Infinity
       /\ \A n \in closedSet' : ~SetHas(openSet', n)
       /\ pc = "loop" =>
            \A n \in closedSet :
                /\ n \in closedSet'
                /\ gScore'[n] = gScore[n]
                /\ fScore'[n] = fScore[n]
                /\ previous'[n] = previous[n]]_vars

\* A search has ended in which a closed node carries a self-loop and a
\* second node was closed after it.
C21_Witness ==
    /\ pc \in {"returned", "thrown"}
    /\ Cardinality(closedSet) >= 2
    /\ \E i \in 1..Len(graph.edges) :
          /\ graph.edges[i].from = graph.edges[i].to
          /\ graph.edges[i].from = startNode
          /\ startNode \in closedSet

\* C22: with non-negative weights and an admissible heuristic, a node that
\* is moved from the open set to the closed set has, at that moment, the
\* minimum total weight of a directed path from the start node as its
\* gScore (stated for graphs whose node ids are all positive).
C22_ClosedIsFinal ==
    [][(pc = "loop" /\ pc' = "loop" /\ Admissible(endNode)
            /\ \A n \in NodeSet : n > 0) =>
          \A n \in closedSet' \ closedSet :
              gScore[n] = ShortestWeight(startNode, n)]_vars

\* The graph without its edges whose `to` id is not a node.
WithoutDeadEdges(g) ==
    LET live == SelectSeq(g.edges, LAMBDA e : e.to \in DOMAIN g.nodes)
    IN  [nodes |-> g.nodes, node_order |-> g.node_order, edges |-> live,
         node_count |-> g.node_count, edge_count |-> Len(live)]

\* C23: an edge whose `to` id is not in graph.nodes is dead: that id has an
\* infinite heuristic and an infinite fScore, is never the current node and
\* never in the path, the call ends by a route or by one of the two
\* messages, and its outcome is the outcome on the graph without those edges.
C23_DeadEdges ==
    /\ \A id \in DOMAIN fScore \ NodeSet :
          /\ fScore[id] = Infinity
          /\ heuristicDistance(graph, id, endNode) = Infinity
    /\ currentNode \in NodeSet \cup {NotFound}
    /\ \A i \in 1..Len(path) : path[i] \in NodeSet
    /\ pc = "thrown" => error \in {MsgNearest, MsgNoPath}
    /\ pc \in {"returned", "thrown"} =>
          CallOutcome = OutcomeFromScratch(WithoutDeadEdges(graph), startCoord, endCoord)

\* A search that put a missing id into the open set and went on to a route.
C23_Witness ==
    /\ pc = "returned"
    /\ Len(routeCoords) >= 2
    /\ \E i \in 1..Len(openSet) : openSet[i] \notin NodeSet
    /\ \E i \in 1..Len(graph.edges) : graph.edges[i].to \notin NodeSet

\* Distance from a query point to a node, and the nodes at the least distance.
DistanceTo(p, id) ==
    haversineDistance(p.lat, p.lon, graph.nodes[id].lat, graph.nodes[id].lon)

NearestSet(p) ==
    {id \in NodeSet : \A o \in NodeSet : DistanceTo(p, id) <= DistanceTo(p, o)}

\* The member of S that `for (const nodeId in graph.nodes)` visits first.
FirstVisited(S) ==
    LET order == NodeKeyOrder(graph)
    IN  order[CHOOSE i \in 1..Len(order) :
                  order[i] \in S /\ \A j \in 1..(i - 1) : order[j] \notin S]

\* C24: findNearestNode replaces the incumbent only on a strictly smaller
\* distance: of the nodes at the least distance from the query point it
\* returns the one visited first in the iteration order of graph.nodes, and
\* two query points with the same set of nearest nodes snap to the same node.
C24_NearestTieBreak ==
    NodeSet # {} =>
        /\ pc # "idle" =>
              /\ startNode = FirstVisited(NearestSet(startCoord))
              /\ endNode = FirstVisited(NearestSet(endCoord))
        /\ pc = "idle" =>
              \A p \in Coordinates, q \in Coordinates :
                  NearestSet(p) = NearestSet(q) =>
                      findNearestNode(graph, p) = findNearestNode(graph, q)

\* Nodes -1 and 0 at one position: both query points are equally far from
\* both, and both snap to node 0, the key visited first.
C24_Witness ==
    /\ pc = "returned"
    /\ {-1, 0} \subseteq NearestSet(startCoord)
    /\ startCoord # endCoord
    /\ NearestSet(endCoord) = NearestSet(startCoord)
    /\ startNode = 0
    /\ endNode = 0

\* The ids met by following the predecessor map from n back to a node
\* without predecessor, first-met id last; at most `fuel` links are followed.
RECURSIVE PredTrail(_, _, _)
PredTrail(prev, n, fuel) ==
    IF fuel = 0 \/ n \notin DOMAIN prev \/ prev[n] = Null THEN <<n>>
    ELSE PredTrail(prev, prev[n][1], fuel - 1) \o <<n>>

Simple(ids) == \A i \in 1..Len(ids), j \in 1..Len(ids) : ids[i] = ids[j] => i = j

Discovered == {openSet[i] : i \in 1..Len(openSet)} \cup closedSet

\* C25: in every state of the search each node other than the start that is
\* open or closed has a closed predecessor p, joined to it by an edge with
\* gScore(n) = gScore(p) + weight of that edge; the predecessors followed
\* from it repeat no node and end at the start node; and the trail walked at
\* success is a simple path along edges whose ids are all nodes of the graph.
C25_PredecessorTrail ==
    built =>
        /\ \A n \in Discovered \ {startNode} :
              /\ n \in DOMAIN previous
              /\ previous[n] # Null
              /\ previous[n][1] \in closedSet
              /\ \E i \in 1..Len(graph.edges) :
                    /\ graph.edges[i].from = previous[n][1]
                    /\ graph.edges[i].to = n
                    /\ gScore[n] = Plus(gScore[previous[n][1]],
                                        WeightOfEdge(graph.edges[i]))
              /\ LET trail == PredTrail(previous, n, Cardinality(DOMAIN previous))
                 IN  Simple(trail) /\ trail[1] = startNode
        /\ pc = "returned" =>
              /\ Len(path) >= 1
              /\ Simple(path)
              /\ \A i \in 1..Len(path) : path[i] \in NodeSet
              /\ \A i \in 1..(Len(path) - 1) : CheapestEdge(path[i], path[i + 1]) < Infinity

\* A search that closed two nodes, walked a trail of three ids at success
\* and had replaced the first predecessor of a node by a later one.
C25_Witness ==
    /\ pc = "returned"
    /\ Len(path) = 3
    /\ \E n \in Discovered \ {startNode} :
          /\ previous[n] # Null
          /\ previous[n][1] # startNode
          /\ CheapestEdge(startNode, n) < Infinity

\* C26: in the first Visual class nothing is rendered into the React root
\* before the first update(): whatever the order of the graph load and the
\* update() calls, the React root has been given nothing as long as
\* update() has not run.
C26_FirstRenderByUpdate ==
    (visualClass = "settings" /\ ~updated) => rendered = NothingRendered

\* C27: for every order of update() calls and of the end of the graph load
\* (success or failure), once update() has run and the load is over, the
\* React root holds what renderVisual gives for the Visual's present fields:
\* the coordinates-required message if a coordinate is null, else the
\* loading placeholder if graphData is null, else RouteVisualization with
\* the present coordinates and the loaded graph; and graphData, once
\* loaded, never becomes null again.
C27_RenderConsistency ==
    [][/\ (updated' /\ loadState' = "done") =>
            /\ rendered' = renderVisual(visualClass', visualStartCoord', visualEndCoord',
                                        graphData', width', height')
            /\ rendered'.view =
                  IF visualStartCoord' = Null \/ visualEndCoord' = Null
                  THEN "coordinatesRequired"
                  ELSE IF graphData' = Null THEN "loadingGraph"
                  ELSE "RouteVisualization"
            /\ rendered'.view = "RouteVisualization" =>
                  /\ rendered'.startCoord = visualStartCoord'
                  /\ rendered'.endCoord = visualEndCoord'
                  /\ rendered'.graphData = graphData'
       /\ graphData # Null => graphData' = graphData]_vars

\* The second Visual showed the loading placeholder for valid coordinates,
\* and the load that ended afterwards put the route view in its place.
C27_Witness ==
    /\ visualClass = "dataView"
    /\ updated
    /\ loadState = "done"
    /\ graphData # Null
    /\ rendered.view = "RouteVisualization"
    /\ rendered.width = 300

\* A settings value that is a text with a number of at most `max` degrees
\* in absolute value: not empty, parseable, in range.
Usable(value, max) ==
    /\ value.type = "string"
    /\ Trim(value.chars) # <<>>
    /\ ~isNaN(parseFloat(Trim(value.chars)))
    /\ CmpMag(parseFloat(Trim(value.chars)), max) <= 0

AllUsable(card) ==
    /\ Usable(card.startLatitude, LatMax) /\ Usable(card.startLongitude, LonMax)
    /\ Usable(card.endLatitude, LatMax) /\ Usable(card.endLongitude, LonMax)

NumberOf(value) == parseFloat(Trim(value.chars))

\* C28: in the first Visual class, settings with an empty, unparseable or
\* out-of-range latitude or longitude make both coordinates null, and four
\* valid values make both the parsed coordinates; once update() has run,
\* both coordinates are null or both are set; with null coordinates the
\* React root holds the coordinates-required message, which carries no
\* coordinates and no graph, and with both set and the graph loaded it
\* holds the route view with these coordinates.
C28_InvalidSettingsClearRoute ==
    visualClass = "settings" =>
        /\ \A settings \in SettingsInputs :
              settings.coordinatesCard # Null =>
                  LET card == settings.coordinatesCard[1]
                  IN  parseCoordinatesFromSettings(settings) =
                        IF AllUsable(card)
                        THEN Coords(Some([lat |-> NumberOf(card.startLatitude),
                                          lon |-> NumberOf(card.startLongitude)]),
                                    Some([lat |-> NumberOf(card.endLatitude),
                                          lon |-> NumberOf(card.endLongitude)]))
                        ELSE Coords(Null, Null)
        /\ updated =>
              /\ (visualStartCoord = Null) <=> (visualEndCoord = Null)
              /\ visualStartCoord = Null =>
                    /\ rendered.view = "coordinatesRequired"
                    /\ rendered.startCoord = Null
                    /\ rendered.endCoord = Null
                    /\ rendered.graphData = Null
              /\ (visualStartCoord # Null /\ graphData # Null) =>
                    /\ rendered.view = "RouteVisualization"
                    /\ rendered.startCoord = visualStartCoord
                    /\ rendered.endCoord = visualEndCoord
                    /\ rendered.graphData = graphData

\* The first Visual with the graph loaded, after an update() whose settings
\* were not valid: the message is on screen.
C28_Witness ==
    /\ visualClass = "settings"
    /\ updated
    /\ graphData # Null
    /\ visualStartCoord = Null
    /\ visualEndCoord = Null
    /\ rendered.view = "coordinatesRequired"
    /\ rendered.width = 300

\* The first Visual showing the route for coordinates read from settings
\* other than the defaults.
C28_RouteRestored ==
    /\ visualClass = "settings"
    /\ updated
    /\ rendered.view = "RouteVisualization"
    /\ rendered.startCoord # Some(DefaultStart)

====
